---- MODULE Spec2Model ----
(***************************************************************************)
(* nix-sigman: the NarInfo manifest codec, the signature operations, the   *)
(* conditional resigner and the resigning gateway's request handler.       *)
(*                                                                         *)
(* Text is modelled as a sequence of tokens.  A token is a tagged tuple:   *)
(*   <<"w", s>>        a run of ordinary characters (no ':' ' ' '\n')      *)
(*   <<":">> <<" ">> <<"\n">>   the three characters the codec acts on     *)
(*   <<"b64", b, alt>> a base64 text of the bytes b (alt: an encoding with *)
(*                     non-zero trailing bits, accepted by the decoder)    *)
(*   <<"n32", h>> <<"hex", h>>  the nix32 / hexadecimal text of bytes h    *)
(*   <<"dec", n, z>>   the decimal text of n with z leading zeros          *)
(*   <<"bad", s>>      characters no decoder accepts                       *)
(* Bytes are tuples too: <<>> is the empty byte string, <<"sig",k,fp,v>>   *)
(* an Ed25519 signature by key k over fp, <<"junk",i>> anything else.      *)
(***************************************************************************)
EXTENDS Integers, Sequences, FiniteSets, TLC

VARIABLES
    privateKeys,  \* loaded private keys, in load order
    signingMap,   \* the signing policy as declared: a sequence of <<k, v>>
    ninfo,        \* the in-memory manifest the operations act on
    hist,         \* the operations applied to ninfo, most recent last
    text,         \* codec: the input bytes
    dec,          \* codec: the result of UnmarshalText
    out,          \* codec: the result of MarshalText
    store,        \* gateway: the backing store, path -> object
    signers,      \* gateway: the compiled clauses (ConditionalResigners)
    req,          \* gateway: the request name under consideration
    resp,         \* gateway: method -> response of the handler for req
    srv,          \* gateway: the listeners, the handlers and Proxy's position
    run,          \* batch command: paths left, file system, output, exit status
    kf,           \* key file: the bytes read and the keys parsed from them
    rec,          \* recursive traversal: rounds, workers, semaphore, error channel
    pipe          \* sign pipeline: Sign, fileSigner and their two channels

vars == <<privateKeys, signingMap, ninfo, hist, text, dec, out,
          store, signers, req, resp, srv, run, kf,
                rec, pipe>>

\* ------------------------------------------------------------------ bounds
MaxInitSigs == 2
MaxExtra == 2

\* ----------------------------------------------------------- sequence help
Range(s) == {s[i] : i \in DOMAIN s}

RECURSIVE Flatten(_)
Flatten(ss) == IF ss = <<>> THEN <<>> ELSE Head(ss) \o Flatten(Tail(ss))

\* all orderings of the elements of a finite set
Perms(S) == {p \in [1..Cardinality(S) -> S] : Range(p) = S}

\* ------------------------------------------------------------------ tokens
W(s) == <<"w", s>>
COLON == <<":">>
SP == <<" ">>
NL == <<"\n">>
SLASH == <<"/">>
COMMA == <<",">>
AMP == <<"&">>
B64(b, alt) == <<"b64", b, alt>>
N32(h) == <<"n32", h>>
HEX(h) == <<"hex", h>>
DEC(n, z) == <<"dec", n, z>>
BAD(s) == <<"bad", s>>

\* strings.Split(s, sep) for a one-character separator
RECURSIVE Split(_, _)
Split(s, sep) ==
    IF \A i \in DOMAIN s : s[i] # sep THEN <<s>>
    ELSE LET i == CHOOSE j \in DOMAIN s : s[j] = sep /\ \A k \in 1..(j-1) : s[k] # sep
         IN <<SubSeq(s, 1, i - 1)>> \o Split(SubSeq(s, i + 1, Len(s)), sep)

\* strings.Join(ss, sep)
RECURSIVE Join(_, _)
Join(ss, sep) ==
    IF ss = <<>> THEN <<>>
    ELSE IF Len(ss) = 1 THEN ss[1]
    ELSE ss[1] \o <<sep>> \o Join(Tail(ss), sep)

\* strings.TrimSpace(s)
RECURSIVE TrimLeft(_)
TrimLeft(s) == IF s # <<>> /\ Head(s) = SP THEN TrimLeft(Tail(s)) ELSE s
RECURSIVE TrimRight(_)
TrimRight(s) ==
    IF s # <<>> /\ s[Len(s)] = SP THEN TrimRight(SubSeq(s, 1, Len(s) - 1)) ELSE s
TrimSpace(s) == TrimLeft(TrimRight(s))

\* strings.Cut(s, ":") / bytes.Cut
Cut(s, sep) ==
    IF \A i \in DOMAIN s : s[i] # sep
    THEN [before |-> s, after |-> <<>>, found |-> FALSE]
    ELSE LET i == CHOOSE j \in DOMAIN s : s[j] = sep /\ \A k \in 1..(j-1) : s[k] # sep
         IN [before |-> SubSeq(s, 1, i - 1), after |-> SubSeq(s, i + 1, Len(s)),
             found |-> TRUE]

\* --------------------------------------------------------------- encodings
Err == <<"err">>

\* base64.StdEncoding.DecodeString / EncodeToString
Base64Decode(s) ==
    IF s = <<>> THEN <<>>
    ELSE IF Len(s) = 1 /\ s[1][1] = "b64" THEN s[1][2]
    ELSE Err
Base64Encode(b) == IF b = <<>> THEN <<>> ELSE <<B64(b, FALSE)>>

\* nixbase32.DecodeString / EncodeToString, hex.DecodeString
Nix32Decode(s) ==
    IF s = <<>> THEN <<>>
    ELSE IF Len(s) = 1 /\ s[1][1] = "n32" THEN s[1][2]
    ELSE Err
Nix32Encode(h) == IF h = <<>> THEN <<>> ELSE <<N32(h)>>
HexDecode(s) ==
    IF s = <<>> THEN <<>>
    ELSE IF Len(s) = 1 /\ s[1][1] = "hex" THEN s[1][2]
    ELSE Err

\* strconv.ParseUint(value, 10, 64) and fmt.Sprintf("%d", n)
ParseUint(s) == IF Len(s) = 1 /\ s[1][1] = "dec" THEN s[1][2] ELSE -1
FormatUint(n) == <<DEC(n, 0)>>

\* ------------------------------------------------------------------- paths
Dot == <<W(".")>>
DotDot == <<W("..")>>

\* the lexical processing of path.Clean / filepath.Clean on the segments
RECURSIVE CleanSegs(_, _, _)
CleanSegs(segs, acc, rooted) ==
    IF segs = <<>> THEN acc
    ELSE LET s == Head(segs)
             rest == Tail(segs)
         IN IF s = <<>> \/ s = Dot THEN CleanSegs(rest, acc, rooted)
            ELSE IF s = DotDot
            THEN IF acc # <<>> /\ acc[Len(acc)] # DotDot
                 THEN CleanSegs(rest, SubSeq(acc, 1, Len(acc) - 1), rooted)
                 ELSE IF rooted THEN CleanSegs(rest, acc, rooted)
                 ELSE CleanSegs(rest, Append(acc, s), rooted)
            ELSE CleanSegs(rest, Append(acc, s), rooted)

PathClean(p) ==
    LET rooted == p # <<>> /\ Head(p) = SLASH
        kept == Join(CleanSegs(Split(p, SLASH), <<>>, rooted), SLASH)
    IN IF rooted THEN <<SLASH>> \o kept
       ELSE IF kept = <<>> THEN Dot ELSE kept

\* path.Join / filepath.Join: empty elements are ignored, the result is cleaned
PathJoin(elems) ==
    LET nonEmpty == SelectSeq(elems, LAMBDA e : e # <<>>)
    IN IF nonEmpty = <<>> THEN <<>> ELSE PathClean(Join(nonEmpty, SLASH))

\* path.Dir: everything up to the last slash, cleaned
PathDir(p) ==
    IF \A i \in DOMAIN p : p[i] # SLASH THEN Dot
    ELSE LET i == CHOOSE j \in DOMAIN p : p[j] = SLASH /\ \A k \in (j+1)..Len(p) : p[k] # SLASH
         IN PathClean(SubSeq(p, 1, i))

\* ------------------------------------------------------------------- types
Name(s) == <<W(s)>>

ZeroHash == [HashName |-> <<>>, Hash |-> <<>>]

\* TypedNixHash.UnmarshalText: nix32 first, hexadecimal as the fallback
TypedNixHashUnmarshal(value) ==
    LET c == Cut(value, COLON)
        n32 == Nix32Decode(c.after)
        hex == HexDecode(c.after)
    IN IF ~c.found THEN [err |-> TRUE, v |-> ZeroHash]
       ELSE IF n32 # Err THEN [err |-> FALSE, v |-> [HashName |-> c.before, Hash |-> n32]]
       ELSE IF hex # Err THEN [err |-> FALSE, v |-> [HashName |-> c.before, Hash |-> hex]]
       ELSE [err |-> TRUE, v |-> ZeroHash]

\* TypedNixHash.String
TypedNixHashString(h) ==
    IF h.HashName = <<>> THEN <<>>
    ELSE h.HashName \o <<COLON>> \o Nix32Encode(h.Hash)

\* NixSignature.UnmarshalText
NixSignatureUnmarshal(sig) ==
    LET c == Cut(sig, COLON)
        b == Base64Decode(c.after)
    IN IF ~c.found \/ b = Err
       THEN [err |-> TRUE, v |-> [KeyName |-> <<>>, Signature |-> <<>>]]
       ELSE [err |-> FALSE, v |-> [KeyName |-> c.before, Signature |-> b]]

\* NixSignature.String
NixSignatureString(s) ==
    IF s.Signature = <<>> THEN <<>>
    ELSE s.KeyName \o <<COLON>> \o Base64Encode(s.Signature)

\* the zero value NarInfo{}; Extra, a Go map, is a set of <<key, value>> pairs
\* with one pair per key
ZeroNarInfo ==
    [StorePath |-> <<>>, URL |-> <<>>, Compression |-> <<>>, FileHash |-> ZeroHash,
     FileSize |-> 0, NarHash |-> ZeroHash, NarSize |-> 0, References |-> <<>>,
     Deriver |-> <<>>, Sig |-> <<>>, Extra |-> {}, order |-> <<>>]

\* ------------------------------------------------------------ key material
\* Key bytes are identified by a number; a private key and its public half
\* carry the same number.  Signing with a key in CorruptKeys returns an error.
CorruptKeys == {9}

PrivKey(name, id) == [KeyName |-> Name(name), Key |-> id]
PubKey(name, id) == [KeyName |-> Name(name), Key |-> id]

\* NamedPrivateKey.PublicKey
PublicKey(priv) == [KeyName |-> priv.KeyName, Key |-> priv.Key]

\* ed25519.Verify(key, fingerprint, signature)
Ed25519Verify(key, fingerprint, signature) ==
    /\ Len(signature) = 4
    /\ signature[1] = "sig"
    /\ signature[2] = key
    /\ signature[3] = fingerprint

\* ------------------------------------------------------ NarInfo operations
\* a fingerprint that also covers the signatures and the extra fields
FingerprintOfAll(n) ==
    <<"1", n.StorePath, TypedNixHashString(n.NarHash), n.NarSize, n.References,
      n.Sig, n.Extra>>

\* NarInfo.Fingerprint
Fingerprint(n) ==
    LET storeRoot == PathDir(n.StorePath)
        references == [i \in DOMAIN n.References |-> PathJoin(<<storeRoot, n.References[i]>>)]
    IN <<"1", n.StorePath, TypedNixHashString(n.NarHash), n.NarSize,
         Join(references, COMMA)>>

\* NarInfo.Verify: (matched, matches)
Verify(n, key) ==
    LET fingerprint == Fingerprint(n)
        matches == SelectSeq(n.Sig,
                     LAMBDA s : Ed25519Verify(key.Key, fingerprint, s.Signature))
    IN [ok |-> Len(matches) > 0, matches |-> matches]

\* NarInfo.MakeSignature
MakeSignature(n, key) ==
    IF key.Key \in CorruptKeys
    THEN [err |-> TRUE, sig |-> [KeyName |-> <<>>, Signature |-> <<>>]]
    ELSE [err |-> FALSE,
          sig |-> [KeyName |-> key.KeyName,
                   Signature |-> <<"sig", key.Key, Fingerprint(n), 0>>]]

\* NarInfo.RemoveSigsByNames
RemoveSigsByNames(n, keyNames) ==
    [n EXCEPT !.Sig = SelectSeq(n.Sig, LAMBDA item : item.KeyName \notin keyNames)]

\* NarInfo.RemoveAllSigs
RemoveAllSigs(n) == [n EXCEPT !.Sig = <<>>]

\* Sign without the check for an identical existing signature
SignAlwaysAppends(n, key) ==
    LET m == MakeSignature(n, key)
    IN IF m.err THEN [n |-> n, added |-> FALSE, sig |-> m.sig, err |-> TRUE]
       ELSE [n |-> [n EXCEPT !.Sig = Append(n.Sig, m.sig)],
             added |-> TRUE, sig |-> m.sig, err |-> FALSE]

\* NarInfo.Sign: (n', added, signature, err)
Sign(n, key) ==
    LET m == MakeSignature(n, key)
    IN IF m.err THEN [n |-> n, added |-> FALSE, sig |-> m.sig, err |-> TRUE]
       ELSE IF \E i \in DOMAIN n.Sig :
                 /\ n.Sig[i].KeyName = m.sig.KeyName
                 /\ n.Sig[i].Signature = m.sig.Signature
       THEN [n |-> n, added |-> FALSE, sig |-> m.sig, err |-> FALSE]
       ELSE [n |-> [n EXCEPT !.Sig = Append(n.Sig, m.sig)],
             added |-> TRUE, sig |-> m.sig, err |-> FALSE]

\* NarInfo.SignReplaceByName: the first entry carrying the key's name decides
SignReplaceByName(n, key) ==
    LET m == MakeSignature(n, key)
        same == {i \in DOMAIN n.Sig : n.Sig[i].KeyName = m.sig.KeyName}
        first == CHOOSE i \in same : \A j \in same : i <= j
    IN IF m.err THEN [n |-> n, added |-> FALSE, sig |-> m.sig, err |-> TRUE]
       ELSE IF same # {} /\ n.Sig[first].Signature = m.sig.Signature
       THEN [n |-> n, added |-> FALSE, sig |-> m.sig, err |-> FALSE]
       ELSE LET kept == IF same # {} THEN RemoveSigsByNames(n, {key.KeyName}) ELSE n
            IN [n |-> [kept EXCEPT !.Sig = Append(kept.Sig, m.sig)],
                added |-> TRUE, sig |-> m.sig, err |-> FALSE]

\* ------------------------------------------------------------ NarInfo codec
KW(s) == <<W(s)>>

\* the sequence of NixSignatureUnmarshal results of a Sig line's value
SigsOfLine(value) ==
    LET sigStrings == Split(value, SP)
    IN [i \in DOMAIN sigStrings |-> NixSignatureUnmarshal(sigStrings[i])]

\* one iteration of the loop of NarInfo.UnmarshalText: (err, n)
UnmarshalLine(n, rawLine) ==
    LET line == TrimSpace(rawLine)
        c == Cut(line, COLON)
        field == TrimSpace(c.before)
        value == TrimSpace(c.after)
        m == [n EXCEPT !.order = Append(n.order, field)]
        ok(x) == [err |-> FALSE, n |-> x]
        fail == [err |-> TRUE, n |-> m]
    IN IF line = <<>> THEN ok(n)
       ELSE IF ~c.found THEN [err |-> TRUE, n |-> n]
       ELSE IF field = KW("StorePath") THEN ok([m EXCEPT !.StorePath = value])
       ELSE IF field = KW("URL") THEN ok([m EXCEPT !.URL = value])
       ELSE IF field = KW("Compression") THEN ok([m EXCEPT !.Compression = value])
       ELSE IF field = KW("FileHash")
       THEN LET h == TypedNixHashUnmarshal(value)
            IN IF h.err THEN fail ELSE ok([m EXCEPT !.FileHash = h.v])
       ELSE IF field = KW("FileSize")
       THEN IF ParseUint(value) < 0 THEN fail
            ELSE ok([m EXCEPT !.FileSize = ParseUint(value)])
       ELSE IF field = KW("NarHash")
       THEN LET h == TypedNixHashUnmarshal(value)
            IN IF h.err THEN fail ELSE ok([m EXCEPT !.NarHash = h.v])
       ELSE IF field = KW("NarSize")
       THEN IF ParseUint(value) < 0 THEN fail
            ELSE ok([m EXCEPT !.NarSize = ParseUint(value)])
       ELSE IF field = KW("References")
       THEN IF value # <<>> THEN ok([m EXCEPT !.References = Split(value, SP)])
            ELSE ok(m)
       ELSE IF field = KW("Deriver") THEN ok([m EXCEPT !.Deriver = value])
       ELSE IF field = KW("Sig")
       THEN IF value = <<>> THEN ok(m)
            ELSE LET sigs == SigsOfLine(value)
                 IN IF \E i \in DOMAIN sigs : sigs[i].err THEN fail
                    ELSE ok([m EXCEPT !.Sig = n.Sig \o [i \in DOMAIN sigs |-> sigs[i].v]])
       ELSE ok([m EXCEPT !.Extra = {p \in n.Extra : p[1] # field} \cup {<<field, value>>}])

RECURSIVE UnmarshalLines(_, _)
UnmarshalLines(n, narLines) ==
    IF narLines = <<>> THEN [err |-> FALSE, n |-> n]
    ELSE LET r == UnmarshalLine(n, Head(narLines))
         IN IF r.err THEN r ELSE UnmarshalLines(r.n, Tail(narLines))

\* NarInfo.UnmarshalText on a zero NarInfo: (err, n)
UnmarshalText(b) == UnmarshalLines(ZeroNarInfo, Split(b, NL))

\* Add as renderKey writes a line: no space after the colon of an empty value
OutputLinesAddRendered(key, values) ==
    [i \in DOMAIN values |->
        IF values[i] = <<>> THEN KW(key) \o <<COLON>>
        ELSE KW(key) \o <<COLON, SP>> \o values[i]]

\* NarOutputLines.Add(key, values...): one line per value
OutputLinesAdd(key, values) ==
    [i \in DOMAIN values |-> KW(key) \o <<COLON, SP>> \o values[i]]

\* NarInfo.MarshalText, with the extra fields visited in the order extraOrder
\* (a sequence of the pairs of n.Extra): `for key, value := range n.Extra`
MarshalTextIn(n, extraOrder) ==
    LET outputLines ==
               OutputLinesAdd("StorePath", <<n.StorePath>>)
            \o OutputLinesAdd("URL", <<n.URL>>)
            \o (IF n.Compression # <<>>
                THEN OutputLinesAdd("Compression", <<n.Compression>>) ELSE <<>>)
            \o OutputLinesAdd("FileHash", <<TypedNixHashString(n.FileHash)>>)
            \o OutputLinesAdd("FileSize", <<FormatUint(n.FileSize)>>)
            \o OutputLinesAdd("NarHash", <<TypedNixHashString(n.NarHash)>>)
            \o OutputLinesAdd("NarSize", <<FormatUint(n.NarSize)>>)
            \o OutputLinesAdd("References", <<Join(n.References, SP)>>)
            \o (IF n.Deriver # <<>>
                THEN OutputLinesAdd("Deriver", <<n.Deriver>>) ELSE <<>>)
            \o OutputLinesAdd("Sig", [i \in DOMAIN n.Sig |-> NixSignatureString(n.Sig[i])])
            \o [i \in DOMAIN extraOrder |->
                  extraOrder[i][1] \o <<COLON, SP>> \o extraOrder[i][2]]
    IN Join(outputLines, NL) \o <<NL>>

\* the iteration orders a Go map range may take over n.Extra
ExtraOrders(n) == Perms(n.Extra)

\* every text MarshalText may return for n
MarshalTexts(n) == {MarshalTextIn(n, o) : o \in ExtraOrders(n)}

\* ---------------------------------------------------- conditional resigner
\* lo.SliceToMap(keys, item -> (item.KeyName, item)): the last key of a name wins
SliceToMap(keys) ==
    {keys[i] : i \in {j \in DOMAIN keys :
                        \A k \in DOMAIN keys : keys[k].KeyName = keys[j].KeyName => k <= j}}
HasKey(map, name) == \E e \in map : e.KeyName = name
Lookup(map, name) == CHOOSE e \in map : e.KeyName = name

\* the loop body giving up on an entry at its first missing name
CompileClauseFirstError(pubMap, privMap, entry) ==
    LET requiredPublicKeys == Split(entry[1], AMP)
        requiredPrivateKeys == Split(entry[2], COMMA)
        pubMissing == SelectSeq(requiredPublicKeys,
                        LAMBDA key : ~HasKey(pubMap, key) /\ key # <<>>)
        pubFound == SelectSeq(requiredPublicKeys,
                        LAMBDA key : HasKey(pubMap, key) /\ key # <<>>)
        privMissing == SelectSeq(requiredPrivateKeys, LAMBDA key : ~HasKey(privMap, key))
        privFound == SelectSeq(requiredPrivateKeys, LAMBDA key : HasKey(privMap, key))
        all == [i \in DOMAIN pubMissing |-> <<"public", pubMissing[i]>>]
               \o [i \in DOMAIN privMissing |-> <<"private", privMissing[i]>>]
    IN [clause |-> [requiredKeys |-> [i \in DOMAIN pubFound |-> Lookup(pubMap, pubFound[i])],
                    signingKeys |-> [i \in DOMAIN privFound |-> Lookup(privMap, privFound[i])]],
        errs |-> IF all = <<>> THEN <<>> ELSE <<all[1]>>]

\* the body of the loop of buildSigningMap for one map entry <<k, v>>:
\* the clause it compiles and the setup errors it appends
CompileClause(pubMap, privMap, entry) ==
    LET requiredPublicKeys == Split(entry[1], AMP)
        requiredPrivateKeys == Split(entry[2], COMMA)
        pubMissing == SelectSeq(requiredPublicKeys,
                        LAMBDA key : ~HasKey(pubMap, key) /\ key # <<>>)
        pubFound == SelectSeq(requiredPublicKeys,
                        LAMBDA key : HasKey(pubMap, key) /\ key # <<>>)
        privMissing == SelectSeq(requiredPrivateKeys, LAMBDA key : ~HasKey(privMap, key))
        privFound == SelectSeq(requiredPrivateKeys, LAMBDA key : HasKey(privMap, key))
    IN [clause |-> [requiredKeys |-> [i \in DOMAIN pubFound |-> Lookup(pubMap, pubFound[i])],
                    signingKeys |-> [i \in DOMAIN privFound |-> Lookup(privMap, privFound[i])]],
        errs |-> [i \in DOMAIN pubMissing |-> <<"public", pubMissing[i]>>]
                 \o [i \in DOMAIN privMissing |-> <<"private", privMissing[i]>>]]

\* buildSigningMap, with the map entries visited in the order `visit`
\* (`for k, v := range signingMap`): (signers, setupErr)
BuildSigningMap(pubs, privs, visit) ==
    LET pubMap == SliceToMap(pubs)
        privMap == SliceToMap(privs)
        compiled == [i \in DOMAIN visit |-> CompileClause(pubMap, privMap, visit[i])]
    IN [signers |-> [i \in DOMAIN compiled |-> compiled[i].clause],
        setupErr |-> Flatten([i \in DOMAIN compiled |-> compiled[i].errs])]

\* the orders in which a Go map holding the declared entries may be ranged over
MapOrders(declared) == Perms(Range(declared))

\* the signing loop of a compiled clause (part_012 318-327): (n, didSign, err)
RECURSIVE SignWithAll(_, _, _)
SignWithAll(n, keys, didNewSignature) ==
    IF keys = <<>> THEN [n |-> n, didSign |-> didNewSignature, err |-> FALSE]
    ELSE LET r == Sign(n, Head(keys))
         IN IF r.err THEN [n |-> r.n, didSign |-> r.added, err |-> TRUE]
            ELSE SignWithAll(r.n, Tail(keys), didNewSignature \/ r.added)

\* a clause that signs as soon as one required key verifies
ResignOnAnyMatch(clause, n) ==
    IF /\ clause.requiredKeys # <<>>
       /\ \A i \in DOMAIN clause.requiredKeys : ~Verify(n, clause.requiredKeys[i]).ok
    THEN [n |-> n, didSign |-> FALSE, err |-> FALSE]
    ELSE SignWithAll(n, clause.signingKeys, FALSE)

\* a compiled clause applied to a manifest: (n, didSign, err)
Resign(clause, n) ==
    IF \E i \in DOMAIN clause.requiredKeys : ~Verify(n, clause.requiredKeys[i]).ok
    THEN [n |-> n, didSign |-> FALSE, err |-> FALSE]
    ELSE SignWithAll(n, clause.signingKeys, FALSE)

\* ------------------------------------------------------------- the universe
\* loaded public keys
publicKeys == <<PubKey("A", 1), PubKey("B", 2), PubKey("D", 4), PubKey("X", 5)>>

\* the private-key sets a run may have loaded
PrivKeyConfigs ==
    { <<PrivKey("X", 5), PrivKey("Y", 6), PrivKey("K", 9)>>,
      <<PrivKey("X", 5), PrivKey("Y", 6), PrivKey("X", 7)>> }

\* the keys the operations are called with
SignKeys == {PrivKey("X", 5), PrivKey("X", 7), PrivKey("K", 9)}

Sha256(h) == [HashName |-> Name("sha256"), Hash |-> <<"h", h>>]
StoreP(p) == <<SLASH, W("nix"), SLASH, W("store"), SLASH, W(p)>>

BaseManifests ==
    { [ZeroNarInfo EXCEPT
         !.StorePath = StoreP("p1"), !.URL = <<W("nar"), SLASH, W("f1.nar.xz")>>,
         !.Compression = Name("xz"), !.FileHash = Sha256(1), !.FileSize = 10,
         !.NarHash = Sha256(2), !.NarSize = 20,
         !.References = <<Name("p1"), Name("p2")>>, !.Deriver = Name("d.drv")],
      [ZeroNarInfo EXCEPT
         !.StorePath = StoreP("p3"), !.URL = <<W("nar"), SLASH, W("f3.nar")>>,
         !.FileHash = Sha256(3), !.FileSize = 30,
         !.NarHash = Sha256(4), !.NarSize = 40] }

SigBy(name, id, fp, v) == [KeyName |-> Name(name), Signature |-> <<"sig", id, fp, v>>]
Junk(name, i) == [KeyName |-> Name(name), Signature |-> <<"junk", i>>]

\* signature entries a stored manifest m may carry: upstream signatures, the
\* signer's own signature, another valid signature by the signer's key and a
\* stale one
SigEntries(m) ==
    LET fp == Fingerprint(m)
    IN { SigBy("A", 1, fp, 0), SigBy("B", 2, fp, 0),
         SigBy("X", 5, fp, 0), SigBy("X", 5, fp, 1), Junk("X", 1) }

\* the signature lists of at most MaxInitSigs entries, and the list {A, B, C}
SigLists(m) ==
    UNION {[1..k -> SigEntries(m)] : k \in 0..MaxInitSigs}
      \cup {<<SigBy("A", 1, Fingerprint(m), 0), SigBy("B", 2, Fingerprint(m), 0),
              SigBy("C", 3, Fingerprint(m), 0)>>}

\* signing-map entries <<public-key specifier, private-key specifier>>
Entry(k, v) == <<k, v>>
PolicyEntries ==
    { Entry(<<W("A"), AMP, W("B")>>, <<W("X")>>),
      Entry(<<W("A"), AMP, W("D")>>, <<W("X")>>),
      Entry(<<W("A")>>, <<W("X"), COMMA, W("Y")>>),
      Entry(<<W("B")>>, <<W("K"), COMMA, W("Y")>>) }

\* the values of the codec's variables before UnmarshalText / MarshalText ran
NotDecoded == [done |-> FALSE, err |-> FALSE, n |-> ZeroNarInfo]
NotEncoded == [done |-> FALSE, text |-> <<>>]

\* the values of the gateway's variables before startup and before a request
NotBuilt == [built |-> FALSE, ok |-> FALSE, list |-> <<>>, setupErr |-> <<>>]
NoRequest == [set |-> FALSE, name |-> <<>>]
NewWriter ==
    [hdr |-> [CL |-> -1, CT |-> "", LM |-> FALSE], wrote |-> FALSE, status |-> 0,
     sent |-> [CL |-> -1, CT |-> "", LM |-> FALSE], body |-> <<>>, calls |-> <<>>]
NoResponse == [done |-> FALSE, w |-> NewWriter, path |-> <<>>, read |-> {}, errs |-> 0]
NoResponses == [GET |-> NoResponse, HEAD |-> NoResponse]

\* the values of the remaining variables where they play no part
NoServer == [pc |-> "off"]
NoRun == [pc |-> "off"]
NoKeyFile == [pc |-> "off"]
NoRecurse == [pc |-> "off"]
NoPipe == [pc |-> "off"]

\* ------------------------------------------- operations on a manifest (Spec)
\* A run starts from any manifest of the universe and applies up to two
\* operations; hist records the last two with the signature list around each.
NoKey == [KeyName |-> <<>>, Key |-> 0]
NoClause == [requiredKeys |-> <<>>, signingKeys |-> <<>>]
NoOp == [op |-> "none", key |-> NoKey, clause |-> NoClause, names |-> {},
         before |-> <<>>, after |-> <<>>, added |-> FALSE, err |-> FALSE]

Record(h, o) == [prev |-> h.last, last |-> o]

Init ==
    /\ privateKeys = <<PrivKey("X", 5), PrivKey("Y", 6), PrivKey("K", 9)>>
    /\ \E m \in BaseManifests : \E sigs \in SigLists(m) : ninfo = [m EXCEPT !.Sig = sigs]
    /\ hist = [prev |-> NoOp, last |-> NoOp]
    /\ signingMap = <<>> /\ text = <<>> /\ dec = NotDecoded /\ out = NotEncoded
    /\ store = {} /\ signers = NotBuilt /\ req = NoRequest /\ resp = NoResponses
    /\ srv = NoServer /\ run = NoRun /\ kf = NoKeyFile
    /\ rec = NoRecurse /\ pipe = NoPipe

OpsUnchanged ==
    UNCHANGED <<privateKeys, signingMap, text, dec, out, store, signers, req, resp,
                srv, run, kf,
                rec, pipe>>

DoSign(key) ==
    /\ hist.prev.op = "none"
    /\ LET r == Sign(ninfo, key)
       IN /\ ninfo' = r.n
          /\ hist' = Record(hist, [NoOp EXCEPT !.op = "Sign", !.key = key,
                        !.before = ninfo.Sig, !.after = r.n.Sig,
                        !.added = r.added, !.err = r.err])
    /\ OpsUnchanged

DoSignReplaceByName(key) ==
    /\ hist.prev.op = "none"
    /\ LET r == SignReplaceByName(ninfo, key)
       IN /\ ninfo' = r.n
          /\ hist' = Record(hist, [NoOp EXCEPT !.op = "SignReplaceByName", !.key = key,
                        !.before = ninfo.Sig, !.after = r.n.Sig,
                        !.added = r.added, !.err = r.err])
    /\ OpsUnchanged

DoRemoveSigsByNames(names) ==
    /\ hist.prev.op = "none"
    /\ ninfo' = RemoveSigsByNames(ninfo, names)
    /\ hist' = Record(hist, [NoOp EXCEPT !.op = "RemoveSigsByNames", !.names = names,
                  !.before = ninfo.Sig, !.after = ninfo'.Sig])
    /\ OpsUnchanged

DoRemoveAllSigs ==
    /\ hist.prev.op = "none"
    /\ ninfo' = RemoveAllSigs(ninfo)
    /\ hist' = Record(hist, [NoOp EXCEPT !.op = "RemoveAllSigs",
                  !.before = ninfo.Sig, !.after = <<>>])
    /\ OpsUnchanged

\* one policy entry compiled by buildSigningMap and its clause applied
DoResign(entry) ==
    /\ hist.prev.op = "none"
    /\ LET b == BuildSigningMap(publicKeys, privateKeys, <<entry>>)
           r == Resign(b.signers[1], ninfo)
       IN /\ b.setupErr = <<>>
          /\ ninfo' = r.n
          /\ hist' = Record(hist, [NoOp EXCEPT !.op = "Resign", !.clause = b.signers[1],
                        !.before = ninfo.Sig, !.after = r.n.Sig,
                        !.added = r.didSign, !.err = r.err])
    /\ OpsUnchanged

\* n.Extra[field] = value (part_014 221-222): an extra field is set or replaced
ExtraEdits == {<<KW("CA"), <<W("one")>>>>, <<KW("CA"), <<W("two")>>>>, <<KW("Foo"), <<W("bar")>>>>}

DoSetExtra(pair) ==
    /\ hist.prev.op = "none"
    /\ ninfo' = [ninfo EXCEPT !.Extra = {p \in ninfo.Extra : p[1] # pair[1]} \cup {pair}]
    /\ hist' = Record(hist, [NoOp EXCEPT !.op = "SetExtra",
                  !.before = ninfo.Sig, !.after = ninfo.Sig])
    /\ OpsUnchanged

SignAny == \E key \in SignKeys : DoSign(key)
SignReplaceAny == \E key \in SignKeys : DoSignReplaceByName(key)
RemoveAny == \E names \in {{Name("X")}, {Name("A"), Name("B")}} : DoRemoveSigsByNames(names)
ResignAny == \E entry \in PolicyEntries : DoResign(entry)
SetExtraAny == \E pair \in ExtraEdits : DoSetExtra(pair)

Next ==
    \/ SignAny
    \/ SignReplaceAny
    \/ RemoveAny
    \/ DoRemoveAllSigs
    \/ ResignAny
    \/ SetExtraAny

Spec == Init /\ [][Next]_vars

\* -------------------------------------------------- claims on the operations
Count(s, x) == Cardinality({i \in DOMAIN s : s[i] = x})
IsPrefix(s, t) == Len(s) <= Len(t) /\ SubSeq(t, 1, Len(s)) = s
WithSigs(sigs) == [ninfo EXCEPT !.Sig = sigs]
\* the signature key produces over the manifest under operation
Produced(key) == [KeyName |-> key.KeyName,
                  Signature |-> <<"sig", key.Key, Fingerprint(ninfo), 0>>]

\* C1: a compiled clause (required public keys R, signers S) that returned no
\* error: if every key of R verifies a signature of the manifest, the old list
\* is kept as a prefix and each signer of S whose (name, bytes) signature was
\* not present has it appended exactly once (those present gain nothing);
\* if some key of R verifies none, the list is unchanged and no change reported.
C1_ClauseApplies ==
    LET o == hist.last
        R == o.clause.requiredKeys
        S == o.clause.signingKeys
        matched == \A i \in DOMAIN R : Verify(WithSigs(o.before), R[i]).ok
        fresh == {Produced(S[i]) : i \in DOMAIN S} \ Range(o.before)
    IN (o.op = "Resign" /\ ~o.err) =>
         IF matched
         THEN /\ IsPrefix(o.before, o.after)
              /\ Len(o.after) = Len(o.before) + Cardinality(fresh)
              /\ \A i \in DOMAIN S :
                    Count(o.after, Produced(S[i])) =
                      IF Produced(S[i]) \in fresh THEN 1
                      ELSE Count(o.before, Produced(S[i]))
              /\ o.added = (fresh # {})
         ELSE o.after = o.before /\ ~o.added

\* C1 witness: a clause requiring two keys matched and appended one signature
C1_Witness ==
    LET o == hist.last
    IN /\ o.op = "Resign" /\ ~o.err
       /\ Len(o.clause.requiredKeys) = 2
       /\ \A i \in DOMAIN o.clause.requiredKeys :
             Verify(WithSigs(o.before), o.clause.requiredKeys[i]).ok
       /\ Len(o.after) = Len(o.before) + 1
       /\ o.added

SignedTwice ==
    /\ hist.prev.op = "Sign" /\ hist.last.op = "Sign"
    /\ hist.prev.key = hist.last.key
    /\ ~hist.prev.err /\ ~hist.last.err

\* C3 as claimed: after Sign(k), Sign(k) on any manifest, Verify with k's public
\* key is true, the second call added nothing and changed nothing, the list grew
\* by exactly one entry and Verify reports exactly one match.
C3_Original ==
    LET k == hist.last.key
        v == Verify(ninfo, PublicKey(k))
    IN SignedTwice =>
         /\ v.ok
         /\ ~hist.last.added /\ hist.last.after = hist.last.before
         /\ Len(hist.last.after) = Len(hist.prev.before) + 1
         /\ Len(v.matches) = 1

\* C3 amended: Verify is true and the second Sign(k) is a no-op on every
\* manifest; the two calls grow the list by exactly one entry when the manifest
\* did not already hold k's (name, bytes) signature and by none when it did;
\* Verify reports exactly one match when no signature of the manifest verified
\* under k's public key before.
C3_SignTwice ==
    LET k == hist.last.key
        v == Verify(ninfo, PublicKey(k))
        held == Produced(k) \in Range(hist.prev.before)
    IN SignedTwice =>
         /\ v.ok
         /\ ~hist.last.added /\ hist.last.after = hist.last.before
         /\ Len(hist.last.after) = Len(hist.prev.before) + (IF held THEN 0 ELSE 1)
         /\ hist.prev.added = ~held
         /\ ~Verify(WithSigs(hist.prev.before), PublicKey(k)).ok => Len(v.matches) = 1

\* C3 witness: two Sign(k) on a manifest carrying other signatures only
C3_Witness ==
    /\ SignedTwice
    /\ hist.prev.before # <<>>
    /\ ~Verify(WithSigs(hist.prev.before), PublicKey(hist.last.key)).ok
    /\ Len(hist.last.after) = Len(hist.prev.before) + 1
    /\ Len(Verify(ninfo, PublicKey(hist.last.key)).matches) = 1

\* C4 as claimed: SignReplaceByName(N) on a list holding an entry named N whose
\* bytes differ from the new signature leaves exactly one entry named N, and it
\* carries the new signature.
C4_ReplaceByName ==
    LET o == hist.last
        new == Produced(o.key)
        named == {i \in DOMAIN o.after : o.after[i].KeyName = o.key.KeyName}
    IN (/\ o.op = "SignReplaceByName" /\ ~o.err
        /\ \E i \in DOMAIN o.before :
              /\ o.before[i].KeyName = o.key.KeyName
              /\ o.before[i].Signature # new.Signature)
       => /\ Cardinality(named) = 1
          /\ \A i \in named : o.after[i] = new

\* C12: no step of Sign, SignReplaceByName, RemoveSigsByNames, RemoveAllSigs,
\* a resigner clause or a change of an extra field changes Fingerprint().
C12_FingerprintFrame == [][Fingerprint(ninfo') = Fingerprint(ninfo)]_vars

\* C12 witness: a signature was added and an extra field set after it, and
\* the manifest has references, so that the fingerprint covers all four fields
C12_Witness ==
    /\ hist.prev.op \in {"Sign", "SignReplaceByName"} /\ hist.prev.added
    /\ hist.last.op = "SetExtra"
    /\ ninfo.Extra # {} /\ ninfo.References # <<>>

\* ------------------------------------------------------ the codec (SpecCodec)
\* Manifest texts.  A canonical text has the known fields in the fixed order,
\* `Key: value` lines, one signature per Sig line, any extra fields after the
\* Sig lines, and a final LF.
Line(key, value) == KW(key) \o <<COLON, SP>> \o value
TextOf(lines) == Join(lines, NL) \o <<NL>>

SigText(name, i) == <<W(name), COLON, B64(<<"junk", i>>, FALSE)>>
HashText(h) == <<W("sha256"), COLON, N32(<<"h", h>>)>>

\* extra fields a text may carry (the second key holds spaces)
ExtraPool ==
    { <<KW("CA"), <<W("text"), COLON, W("somevalue")>>>>,
      <<<<W("a"), SP, W("bad"), SP, W("feild")>>, <<W("with"), SP, W("a"), SP, W("value")>>>>,
      <<KW("Foo"), <<W("bar")>>>> }

\* sequences of at most MaxExtra extra fields with distinct keys
ExtraSeqs ==
    {e \in UNION {[1..k -> ExtraPool] : k \in 0..MaxExtra} :
        \A i, j \in DOMAIN e : i # j => e[i][1] # e[j][1]}

SigTextLists == {<<>>, <<SigText("A", 1)>>, <<SigText("A", 1), SigText("T", 2)>>}
RefLists == {<<>>, <<Name("p1"), Name("p2")>>}

CanonicalLines(comp, refs, deriver, sigs, extras) ==
       <<Line("StorePath", StoreP("p1")),
         Line("URL", <<W("nar"), SLASH, W("f1.nar.xz")>>)>>
    \o (IF comp # <<>> THEN <<Line("Compression", comp)>> ELSE <<>>)
    \o <<Line("FileHash", HashText(1)),
         Line("FileSize", <<DEC(10, 0)>>),
         Line("NarHash", HashText(2)),
         Line("NarSize", <<DEC(20, 0)>>),
         Line("References", Join(refs, SP))>>
    \o (IF deriver # <<>> THEN <<Line("Deriver", deriver)>> ELSE <<>>)
    \o [i \in DOMAIN sigs |-> Line("Sig", sigs[i])]
    \o [i \in DOMAIN extras |-> extras[i][1] \o <<COLON, SP>> \o extras[i][2]]

CanonicalTexts ==
    {TextOf(CanonicalLines(comp, refs, deriver, sigs, extras)) :
        comp \in {<<>>, Name("xz")}, refs \in RefLists,
        deriver \in {<<>>, Name("d.drv")}, sigs \in SigTextLists, extras \in ExtraSeqs}

\* texts the decoder is given that are not canonical: spacing, encodings and
\* layout the decoder tolerates, and corrupt input
BaseLines(refLine, hashValue, sizeValue, sigLines, tail) ==
    <<Line("StorePath", StoreP("p1")),
      Line("URL", <<W("nar"), SLASH, W("f1.nar.xz")>>),
      Line("FileHash", hashValue),
      Line("FileSize", sizeValue),
      Line("NarHash", HashText(2)),
      Line("NarSize", <<DEC(20, 0)>>),
      refLine>> \o sigLines \o tail

OtherTexts ==
    { \* `References:` without the trailing space
      TextOf(BaseLines(KW("References") \o <<COLON>>, HashText(1), <<DEC(10, 0)>>,
                       <<Line("Sig", SigText("A", 1))>>, <<>>)),
      \* two signatures on one Sig line
      TextOf(BaseLines(Line("References", <<>>), HashText(1), <<DEC(10, 0)>>,
                       <<Line("Sig", SigText("A", 1) \o <<SP>> \o SigText("T", 2))>>, <<>>)),
      \* a hexadecimal hash, a size with a leading zero, padded base64
      TextOf(BaseLines(Line("References", <<>>), <<W("sha256"), COLON, HEX(<<"h", 1>>)>>,
                       <<DEC(10, 1)>>,
                       <<Line("Sig", <<W("A"), COLON, B64(<<"junk", 1>>, TRUE)>>)>>, <<>>)),
      \* no space after the colon, blank line, no final LF
      Join(BaseLines(Line("References", <<>>), HashText(1), <<DEC(10, 0)>>,
                     <<KW("Sig") \o <<COLON>> \o SigText("A", 1), <<>>>>, <<>>), NL),
      \* an extra field given twice
      TextOf(BaseLines(Line("References", <<>>), HashText(1), <<DEC(10, 0)>>, <<>>,
                       <<Line("CA", <<W("one")>>), Line("CA", <<W("two")>>)>>)),
      \* corrupt: a line without a colon, a bad size, a bad hash, a bad signature
      TextOf(BaseLines(Line("References", <<>>), HashText(1), <<DEC(10, 0)>>, <<>>,
                       <<<<W("garbage")>>>>)),
      TextOf(BaseLines(Line("References", <<>>), HashText(1), <<BAD("-1")>>, <<>>, <<>>)),
      TextOf(BaseLines(Line("References", <<>>), <<W("sha256"), COLON, BAD("!")>>,
                       <<DEC(10, 0)>>, <<>>, <<>>)),
      TextOf(BaseLines(Line("References", <<>>), HashText(1), <<DEC(10, 0)>>,
                       <<Line("Sig", <<W("A"), COLON, BAD("!")>>)>>, <<>>)) }

InitCodec ==
    /\ text \in CanonicalTexts \cup OtherTexts
    /\ dec = NotDecoded /\ out = NotEncoded
    /\ privateKeys = <<>> /\ signingMap = <<>>
    /\ ninfo = ZeroNarInfo /\ hist = [prev |-> NoOp, last |-> NoOp]
    /\ store = {} /\ signers = NotBuilt /\ req = NoRequest /\ resp = NoResponses
    /\ srv = NoServer /\ run = NoRun /\ kf = NoKeyFile
    /\ rec = NoRecurse /\ pipe = NoPipe

CodecUnchanged ==
    UNCHANGED <<privateKeys, signingMap, ninfo, hist, text, store, signers, req, resp,
                srv, run, kf,
                rec, pipe>>

\* ninfo := NarInfo{}; err := ninfo.UnmarshalText(text)
DoUnmarshalText ==
    /\ ~dec.done
    /\ LET r == UnmarshalText(text)
       IN dec' = [done |-> TRUE, err |-> r.err, n |-> r.n]
    /\ out' = out
    /\ CodecUnchanged

\* content, _ := ninfo.MarshalText()
DoMarshalText ==
    /\ dec.done /\ ~dec.err /\ ~out.done
    /\ \E o \in ExtraOrders(dec.n) : out' = [done |-> TRUE, text |-> MarshalTextIn(dec.n, o)]
    /\ dec' = dec
    /\ CodecUnchanged

NextCodec ==
    \/ DoUnmarshalText
    \/ DoMarshalText

SpecCodec == InitCodec /\ [][NextCodec]_vars

\* C2 as claimed: for every canonical text b, also with two or more extra
\* fields after the Sig lines, MarshalText(UnmarshalText(b)) returns exactly b.
C2_RoundTrip ==
    (out.done /\ text \in CanonicalTexts) => out.text = text

\* ------------------------------------------------- the gateway (SpecProxy)
\* The backing store is a set of <<path, bytes>> pairs, one per object.
Exists(st, path) == \E o \in st : o[1] = path
ReadFile(st, path) == (CHOOSE o \in st : o[1] = path)[2]

\* http.ResponseWriter as the handler uses it.  hdr is the header map, sent
\* the headers as they were at the first WriteHeader, calls the handler's calls.
WSetHeader(w, k, v) ==
    [w EXCEPT !.hdr = [w.hdr EXCEPT ![k] = v], !.calls = Append(w.calls, <<"Set", k>>)]

WWriteHeader(w, code) ==
    LET logged == [w EXCEPT !.calls = Append(w.calls, <<"WriteHeader", code>>)]
    IN IF w.wrote THEN logged
       ELSE [logged EXCEPT !.wrote = TRUE, !.status = code, !.sent = w.hdr]

\* w.Write / io.Copy(w, fh): the header goes out with 200 if none was written;
\* a HEAD response takes no body, nor does a body beyond the Content-Length sent
WWrite(w, method, data) ==
    LET h == IF w.wrote THEN w
             ELSE [w EXCEPT !.wrote = TRUE, !.status = 200, !.sent = w.hdr]
        logged == [h EXCEPT !.calls = Append(h.calls, <<"Write", data>>)]
    IN IF method = "HEAD" THEN logged
       ELSE IF h.sent.CL >= 0 /\ Len(h.body) + Len(data) > h.sent.CL THEN logged
       ELSE [logged EXCEPT !.body = h.body \o data]

NixCacheInfoName == <<W("nix-cache-info")>>
NarInfoSuffix == W(".narinfo")
HasNarInfoSuffix(name) == name # <<>> /\ name[Len(name)] = NarInfoSuffix

NotFoundMsg(name) == <<<<"msg", "Not Found: ", name>>>>
SigningErrorMsg(name) == <<<<"msg", "Signing Error: ", name>>>>

\* rootDir.Join(name).Clean()
RequestPath(rootDir, name) == PathClean(PathJoin(<<rootDir, name>>))

\* loadNarInfo: (err, n); a manifest that does not parse is returned as NarInfo{}
OrZero(r) == IF r.err THEN [err |-> TRUE, n |-> ZeroNarInfo] ELSE r
LoadNarInfo(st, path) ==
    IF ~Exists(st, path) THEN [err |-> TRUE, n |-> ZeroNarInfo]
    ELSE OrZero(UnmarshalText(ReadFile(st, path)))

\* st.Size() of the object the handler stat'ed
StatSize(st, path) == IF Exists(st, path) THEN Len(ReadFile(st, path)) ELSE 0

\* `if st != nil`: Content-Length and Last-Modified are set
StatHeaders(w, st, path, size) ==
    IF Exists(st, path) THEN WSetHeader(WSetHeader(w, "CL", size), "LM", TRUE) ELSE w

\* File Not Found: 404 and, unless the method is HEAD, the message
NotFound(w, method, name) ==
    IF method = "HEAD" THEN WWriteHeader(w, 404)
    ELSE WWrite(WWriteHeader(w, 404), method, NotFoundMsg(name))

\* the signing loop of the handler (proxy.go 288-299): (n, w, errs).
\* SignerDone is the body of the loop once signer(&ninfo) has returned r.
RECURSIVE RunSigners(_, _, _, _, _, _), SignerDone(_, _, _, _, _, _)
RunSigners(list, n, w, method, name, errs) ==
    IF list = <<>> THEN [n |-> n, w |-> w, errs |-> errs]
    ELSE SignerDone(Resign(Head(list), n), Tail(list), w, method, name, errs)

SignerDone(r, rest, w, method, name, errs) ==
    IF r.err
    THEN RunSigners(rest, r.n, WWrite(WWriteHeader(w, 500), method, SigningErrorMsg(name)),
                    method, name, errs + 1)
    ELSE RunSigners(rest, r.n, w, method, name, errs)

\* the branch `if name == NixCacheInfoName` (proxy.go 247-272): (w, returned).
\* After io.Copy the branch does not return.
HandleCacheInfo(w, st, method, name, path) ==
    IF ~Exists(st, path) THEN [w |-> NotFound(w, method, name), returned |-> TRUE]
    ELSE LET w1 == WSetHeader(w, "CT", "text/x-nix-cache-info")
             w2 == WWriteHeader(StatHeaders(w1, st, path, StatSize(st, path)), 200)
         IN IF method = "HEAD" THEN [w |-> w2, returned |-> TRUE]
            ELSE [w |-> WWrite(w2, method, ReadFile(st, path)), returned |-> FALSE]

\* the end of the *.narinfo branch (proxy.go 311-328): content is written
WriteNarInfo(w, errs, content, st, method, path) ==
    LET w1 == StatHeaders(w, st, path, Len(content))
        w2 == WWriteHeader(WSetHeader(w1, "CT", "text/x-nix-narinfo"), 200)
    IN [w |-> IF method = "HEAD" THEN w2 ELSE WWrite(w2, method, content), errs |-> errs]

\* the *.narinfo branch once the signers have run: s is what RunSigners
\* returned; the extra fields are marshalled in the order extraOrder
Resigned(s, st, method, path, extraOrder) ==
    WriteNarInfo(s.w, s.errs, MarshalTextIn(s.n, extraOrder), st, method, path)

\* the *.narinfo branch once loadNarInfo has returned loaded
Loaded(loaded, w, st, list, method, name, path, extraOrder) ==
    IF loaded.err THEN [w |-> NotFound(w, method, name), errs |-> 0]
    ELSE Resigned(RunSigners(list, loaded.n, w, method, name, 0),
                  st, method, path, extraOrder)

\* the branch for *.narinfo (proxy.go 275-329): (w, errs)
HandleNarInfo(w, st, list, method, name, path, extraOrder) ==
    Loaded(LoadNarInfo(st, path), w, st, list, method, name, path, extraOrder)

\* everything else (proxy.go 330-349)
HandleOther(w, st, method, name, path) ==
    LET w1 == StatHeaders(w, st, path, StatSize(st, path))
    IN IF method = "HEAD" THEN WWriteHeader(w1, 200)
       ELSE IF ~Exists(st, path)
       THEN WWrite(WWriteHeader(w1, 404), method, NotFoundMsg(name))
       ELSE WWrite(WWriteHeader(w1, 200), method, ReadFile(st, path))

\* the objects the handler opens or reads: every existing object asked for,
\* except by HEAD in the branch for everything else
Opened(st, method, name, path) ==
    IF /\ Exists(st, path)
       /\ ~(method = "HEAD" /\ ~HasNarInfoSuffix(name) /\ name # NixCacheInfoName)
    THEN {path} ELSE {}

\* what the handler has done when it returns: r is (w, errs)
Response(r, st, method, name, path) ==
    [done |-> TRUE, w |-> r.w, path |-> path, read |-> Opened(st, method, name, path),
     errs |-> r.errs]

\* the handler after the nix-cache-info branch, info being (w, returned)
AfterCacheInfo(info, st, list, method, name, path, extraOrder) ==
    IF info.returned THEN Response([w |-> info.w, errs |-> 0], st, method, name, path)
    ELSE IF HasNarInfoSuffix(name)
    THEN Response(HandleNarInfo(info.w, st, list, method, name, path, extraOrder),
                  st, method, name, path)
    ELSE Response([w |-> HandleOther(info.w, st, method, name, path), errs |-> 0],
                  st, method, name, path)

\* the handler from the Stat of requestName on
HandlePath(path, st, list, method, name, extraOrder) ==
    AfterCacheInfo(IF name = NixCacheInfoName
                   THEN HandleCacheInfo(NewWriter, st, method, name, path)
                   ELSE [w |-> NewWriter, returned |-> FALSE],
                   st, list, method, name, path, extraOrder)

\* the handler `handle` of Proxy (proxy.go 236-350): the response
Handle(rootDir, st, list, method, name, extraOrder) ==
    HandlePath(RequestPath(rootDir, name), st, list, method, name, extraOrder)

\* CLI.Proxy.Root, cleaned
rootDir == PathClean(<<W("cache")>>)

\* stored manifests: the first base manifest signed by the keys named, as text
StoredManifest(sigs, extras) ==
    LET m == CHOOSE b \in BaseManifests : b.References # <<>>
        fp == Fingerprint(m)
    IN TextOf(CanonicalLines(m.Compression, m.References, m.Deriver,
                [i \in DOMAIN sigs |->
                    <<W(sigs[i][1]), COLON, B64(<<"sig", sigs[i][2], fp, 0>>, FALSE)>>],
                extras))

TwoExtras == CHOOSE e \in ExtraSeqs : Len(e) = 2
OneExtra == CHOOSE e \in ExtraSeqs : Len(e) = 1

\* what the store may hold at cache/a.narinfo
NarInfoObjects ==
    { StoredManifest(<<<<"A", 1>>>>, <<>>),
      StoredManifest(<<<<"A", 1>>, <<"B", 2>>>>, OneExtra),
      StoredManifest(<<<<"B", 2>>>>, TwoExtras),
      \* two signatures on one Sig line and no final LF
      LET t == StoredManifest(<<<<"A", 1>>, <<"B", 2>>>>, <<>>)
          cut == CHOOSE i \in DOMAIN t :
                    /\ t[i] = NL /\ i < Len(t) /\ t[i + 1] = W("Sig")
                    /\ \E j \in 1..(i - 1) : t[j] = W("Sig")
      IN SubSeq(t, 1, cut - 1) \o <<SP>> \o SubSeq(t, cut + 4, Len(t) - 1),
      \* not a manifest
      <<W("garbage"), NL>> }

InfoBytes == <<W("StoreDir"), COLON, SP, SLASH, W("nix"), SLASH, W("store"), NL>>
NarBytes == <<W("nar-bytes-1"), W("nar-bytes-2")>>
SecretBytes == <<W("secret-bytes")>>

CachePath(name) == rootDir \o <<SLASH>> \o name
NarInfoName == <<W("a"), NarInfoSuffix>>
NarName == <<W("x.nar")>>

\* the states of the backing store: each object of the cache present or not;
\* an object outside the cache root always exists
Stores ==
    { {<<<<W("secret")>>, SecretBytes>>} \cup info \cup nar \cup ninf :
        info \in {{}, {<<CachePath(NixCacheInfoName), InfoBytes>>}},
        nar \in {{}, {<<CachePath(NarName), NarBytes>>}},
        ninf \in {{}} \cup {{<<CachePath(NarInfoName), b>>} : b \in NarInfoObjects} }

\* the names requests carry; the router hands the name over with or without
\* the leading slash of the request path
RequestNames ==
    { NixCacheInfoName, NarInfoName, NarName,
      <<SLASH>> \o NixCacheInfoName, <<SLASH>> \o NarInfoName, <<SLASH>> \o NarName,
      <<W(".."), SLASH, W("secret")>>,
      <<SLASH, W(".."), SLASH, W("secret")>> }

\* the signing policies, as declared
Policies ==
    { <<>>,
      <<Entry(<<W("A")>>, <<W("X")>>), Entry(<<W("B")>>, <<W("Y")>>)>>,
      <<Entry(<<W("A"), AMP, W("B")>>, <<W("X")>>)>>,
      <<Entry(<<W("A"), AMP, W("D")>>, <<W("X")>>)>>,
      <<Entry(<<W("A")>>, <<W("K"), COMMA, W("Y")>>),
        Entry(<<W("B")>>, <<W("K")>>)>>,
      \* the second clause requires the key the first one signs with
      <<Entry(<<W("A")>>, <<W("X")>>), Entry(<<W("X")>>, <<W("Y")>>)>>,
      \* empty names on the public side
      <<Entry(<<W("A"), AMP>>, <<W("X")>>), Entry(<<>>, <<W("Y")>>)>>,
      \* names of keys that are not loaded
      <<Entry(<<W("Z"), AMP, W("Q")>>, <<W("X"), COMMA, W("M")>>),
        Entry(<<W("A")>>, <<W("N")>>)>> }

InitProxy ==
    /\ privateKeys \in PrivKeyConfigs
    /\ signingMap \in Policies
    /\ store \in Stores
    /\ signers = NotBuilt /\ req = NoRequest /\ resp = NoResponses
    /\ text = <<>> /\ dec = NotDecoded /\ out = NotEncoded
    /\ ninfo = ZeroNarInfo /\ hist = [prev |-> NoOp, last |-> NoOp]
    /\ srv = NoServer /\ run = NoRun /\ kf = NoKeyFile
    /\ rec = NoRecurse /\ pipe = NoPipe

ProxyUnchanged ==
    UNCHANGED <<privateKeys, signingMap, store, ninfo, hist, text, dec, out, srv, run, kf,
                rec, pipe>>

\* Proxy startup (proxy.go 227-231): the policy is compiled, ranging over the
\* map in some order; a setup error ends Proxy before any request is served
DoBuildSigningMap ==
    /\ ~signers.built
    /\ \E visit \in MapOrders(signingMap) :
          LET b == BuildSigningMap(publicKeys, privateKeys, visit)
          IN signers' = [built |-> TRUE, ok |-> b.setupErr = <<>>, list |-> b.signers,
                          setupErr |-> b.setupErr]
    /\ UNCHANGED <<req, resp>>
    /\ ProxyUnchanged

\* the listeners opened before the policy is compiled
ListenUncompiled ==
    /\ srv.pc = "off"
    /\ srv' = [pc |-> "serving", cause |-> "none", running |-> {}, finished |-> {}]
    /\ UNCHANGED <<signers, req, resp, privateKeys, signingMap, store, ninfo, hist,
                   text, dec, out, run, kf,
                rec, pipe>>

\* multihttp.Listen (proxy.go 365), reached when buildSigningMap returned no
\* error: the listeners are open
Listen ==
    /\ signers.built /\ signers.ok
    /\ srv.pc = "off"
    /\ srv' = [pc |-> "serving", cause |-> "none", running |-> {}, finished |-> {}]
    /\ UNCHANGED <<signers, req, resp, privateKeys, signingMap, store, ninfo, hist,
                   text, dec, out, run, kf,
                rec, pipe>>

\* a client asks for name
Request(name) ==
    /\ signers.built /\ signers.ok
    /\ srv.pc = "serving"
    /\ ~req.set
    /\ req' = [set |-> TRUE, name |-> name]
    /\ UNCHANGED <<signers, resp>>
    /\ ProxyUnchanged

\* the orders MarshalText may visit the extra fields of the object at path in
StoredExtraOrders(st, path) ==
    IF LoadNarInfo(st, path).err THEN {<<>>} ELSE ExtraOrders(LoadNarInfo(st, path).n)

\* handle(w, r, p) runs for the request with the given method
DoHandle(method) ==
    /\ req.set
    /\ ~resp[method].done
    /\ \E o \in StoredExtraOrders(store, RequestPath(rootDir, req.name)) :
          resp' = [resp EXCEPT ![method] =
                      Handle(rootDir, store, signers.list, method, req.name, o)]
    /\ UNCHANGED <<signers, req>>
    /\ ProxyUnchanged

AnyRequest == \E name \in RequestNames : Request(name)
HandleGet == DoHandle("GET")
HandleHead == DoHandle("HEAD")

NextProxy ==
    \/ DoBuildSigningMap
    \/ Listen
    \/ AnyRequest
    \/ HandleGet
    \/ HandleHead

SpecProxy == InitProxy /\ [][NextProxy]_vars

\* ---------------------------------------------------- claims on the gateway
ReqPath == RequestPath(rootDir, req.name)
Stored == LoadNarInfo(store, ReqPath)
Writes(w) == SelectSeq(w.calls, LAMBDA c : c[1] = "Write")

\* the clauses applied one after the other, errors aside
RECURSIVE ResignAll(_, _)
ResignAll(list, n) ==
    IF list = <<>> THEN n ELSE ResignAll(Tail(list), Resign(Head(list), n).n)

\* the policy compiled in the order it is declared in
DeclaredSigners == BuildSigningMap(publicKeys, privateKeys, signingMap).signers

Matches(clause, n) ==
    \A i \in DOMAIN clause.requiredKeys : Verify(n, clause.requiredKeys[i]).ok

\* C5 as claimed: the clauses are applied in the order the policy declares
\* them, so the signatures of the manifest served are those of the stored
\* manifest followed by the signatures the clauses append in declared order.
C5_DeclaredOrder ==
    (/\ resp.GET.done /\ HasNarInfoSuffix(req.name) /\ ~Stored.err
     /\ resp.GET.errs = 0)
    => UnmarshalText(resp.GET.w.body).n.Sig = ResignAll(DeclaredSigners, Stored.n).Sig

\* C6 as claimed: HEAD and GET of one name against one store return the same
\* status code and the same Content-Length header.
C6_HeadGetParity ==
    (resp.GET.done /\ resp.HEAD.done)
    => /\ resp.GET.w.status = resp.HEAD.w.status
       /\ resp.GET.w.sent.CL = resp.HEAD.w.sent.CL

\* C7 as claimed: when no clause matches a stored manifest the decoder
\* accepts, the body of GET is byte-identical to the stored object.
C7_Identity ==
    (/\ resp.GET.done /\ HasNarInfoSuffix(req.name) /\ ~Stored.err
     /\ \A i \in DOMAIN signers.list : ~Matches(signers.list[i], Stored.n))
    => resp.GET.w.body = ReadFile(store, ReqPath)

\* C8 as claimed: if a clause returns an error while a .narinfo is resigned,
\* the status is 500 and the only body write is `Signing Error: <name>`.
C8_SigningError ==
    \A m \in {"GET", "HEAD"} :
        (resp[m].done /\ resp[m].errs > 0)
        => /\ resp[m].w.status = 500
           /\ Writes(resp[m].w) = <<<<"Write", SigningErrorMsg(req.name)>>>>
           /\ m = "GET" => resp[m].w.body = SigningErrorMsg(req.name)

UnderRoot(path) ==
    \/ path = rootDir
    \/ /\ Len(path) > Len(rootDir) + 1
       /\ SubSeq(path, 1, Len(rootDir) + 1) = rootDir \o <<SLASH>>

\* C9 as claimed: the path the handler stats or opens is the cache root or a
\* descendant of it; a name that leads outside is answered 404 and nothing
\* outside the root is read.
C9_UnderRoot ==
    \A m \in {"GET", "HEAD"} :
        resp[m].done
        => /\ \A p \in {resp[m].path} \cup resp[m].read : UnderRoot(p)
           /\ ~UnderRoot(ReqPath) => resp[m].w.status = 404 /\ resp[m].read = {}

\* C10 as claimed: GET of nix-cache-info, the object present: status 200,
\* Content-Type text/x-nix-cache-info, the body one copy of the stored bytes,
\* and no header or body write after that body.
C10_CacheInfoOnce ==
    (resp.GET.done /\ req.name = NixCacheInfoName /\ Exists(store, ReqPath))
    => LET w == resp.GET.w
       IN /\ w.status = 200
          /\ w.sent.CT = "text/x-nix-cache-info"
          /\ w.body = ReadFile(store, ReqPath)
          /\ Len(Writes(w)) = 1
          /\ w.calls[Len(w.calls)][1] = "Write"

\* ------------------------------------------------------ claims on the codec
\* the lines of a text that open with the field name References
RefLinesOf(t) == SelectSeq(Split(t, NL), LAMBDA l : l # <<>> /\ l[1] = W("References"))
EmptyRefForms == {KW("References") \o <<COLON>>, KW("References") \o <<COLON, SP>>}

MaxHandlers == 3
Handlers == 1..MaxHandlers

Serving == [pc |-> "serving", cause |-> "none", running |-> {}, finished |-> {}]

InitShutdown ==
    /\ srv = Serving
    /\ privateKeys = <<>> /\ signingMap = <<>>
    /\ ninfo = ZeroNarInfo /\ hist = [prev |-> NoOp, last |-> NoOp]
    /\ text = <<>> /\ dec = NotDecoded /\ out = NotEncoded
    /\ store = {} /\ signers = NotBuilt /\ req = NoRequest /\ resp = NoResponses
    /\ run = NoRun /\ kf = NoKeyFile
    /\ rec = NoRecurse /\ pipe = NoPipe

ShutdownUnchanged ==
    UNCHANGED <<privateKeys, signingMap, ninfo, hist, text, dec, out,
                store, signers, req, resp, run, kf,
                rec, pipe>>

\* a server accepts a connection and starts handle for its request; this can
\* happen for as long as the listeners are open
Accept(h) ==
    /\ srv.pc \in {"serving", "cancelled"}
    /\ h \notin srv.running \cup srv.finished
    /\ srv' = [srv EXCEPT !.running = @ \cup {h}]
    /\ ShutdownUnchanged

\* handle returns; the handlers end with the process once Proxy has returned
Finish(h) ==
    /\ srv.pc # "returned"
    /\ h \in srv.running
    /\ srv' = [srv EXCEPT !.running = @ \ {h}, !.finished = @ \cup {h}]
    /\ ShutdownUnchanged

\* a termination signal cancels cmdCtx.ctx, the parent of webCtx
Signal ==
    /\ srv.pc = "serving"
    /\ srv' = [srv EXCEPT !.pc = "cancelled", !.cause = "signal"]
    /\ ShutdownUnchanged

\* a listener reports an error: webCancel()
ListenerError ==
    /\ srv.pc = "serving"
    /\ srv' = [srv EXCEPT !.pc = "cancelled", !.cause = "listener"]
    /\ ShutdownUnchanged

\* <-webCtx.Done() returns and every listener is closed
CloseListeners ==
    /\ srv.pc = "cancelled"
    /\ srv' = [srv EXCEPT !.pc = "closed"]
    /\ ShutdownUnchanged

\* l.Info("Exiting"); return nil
Return ==
    /\ srv.pc = "closed"
    /\ srv' = [srv EXCEPT !.pc = "returned"]
    /\ ShutdownUnchanged

AcceptAny == \E h \in Handlers : Accept(h)
FinishAny == \E h \in Handlers : Finish(h)

NextShutdown ==
    \/ AcceptAny
    \/ FinishAny
    \/ Signal
    \/ ListenerError
    \/ CloseListeners
    \/ Return

SpecShutdown == InitShutdown /\ [][NextShutdown]_vars

\* C13 as claimed: after a termination signal has cancelled the gateway's
\* context, Proxy closes its listeners and returns only once every handler
\* that was in flight has finished: no handler is running when Proxy returns.
C13_Drain ==
    (srv.pc = "returned" /\ srv.cause = "signal") => srv.running = {}

\* ------------------------------------------------ batch commands (SpecBatch)
\* sign, verify and validate over a list of paths.  The file system is the
\* variable store; run holds the command line, the paths readPaths has still
\* to hand to the callback, what was written to stdout and, per path handled,
\* a record of what the callback did.  Verify runs without --validate-hashes,
\* the key selections are the default "*", the paths come from the command
\* line.
MaxPaths == 2

PathA == <<W("a.narinfo")>>
PathB == <<W("b.narinfo")>>
BatchPaths == {PathA, PathB}
PathLists == UNION {[1..k -> BatchPaths] : k \in 1..MaxPaths}

\* fmt.Sprintf("%s.bak", path) and path.Parent().Join(path.Name() + ".new")
Bak(path) == path \o <<W(".bak")>>
New(path) == path \o <<W(".new")>>

Put(st, path, bytes) == {o \in st : o[1] # path} \cup {<<path, bytes>>}
Remove(st, path) == {o \in st : o[1] # path}

\* what the file system may do to the callback for one path: nothing, fail
\* the write of the backup, fail a write before any byte is stored, fail it
\* after some bytes are stored, fail the rename
Faults == {"none", "backup", "open", "short", "rename"}
Short(bytes) == SubSeq(bytes, 1, Len(bytes) \div 2)

\* WriteFileMode(bytes, 0644) on path: (st, err)
WriteFile(st, path, bytes, fault) ==
    IF fault = "open" THEN [st |-> st, err |-> TRUE]
    ELSE IF fault = "short" THEN [st |-> Put(st, path, Short(bytes)), err |-> TRUE]
    ELSE [st |-> Put(st, path, bytes), err |-> FALSE]

\* backNinfo: (st, err)
backNinfo(st, path, fault) ==
    IF ~Exists(st, path) \/ fault = "backup" THEN [st |-> st, err |-> TRUE]
    ELSE [st |-> Put(st, Bak(path), ReadFile(st, path)), err |-> FALSE]

Step(op, path, st, err) == [op |-> op, path |-> path, st |-> st, err |-> err]

\* writeNInfo always writing the target in place
writeNInfoInPlace(st, backend, path, newBytes, fault) ==
    [st |-> WriteFile(st, path, newBytes, fault).st,
     err |-> WriteFile(st, path, newBytes, fault).err,
     trace |-> <<Step("write", path, WriteFile(st, path, newBytes, fault).st,
                      WriteFile(st, path, newBytes, fault).err)>>]

\* the rename of writeNInfo, after newPath was written: (st, err, trace)
Renamed(written, path, newBytes, fault) ==
    IF fault = "rename"
    THEN [st |-> written, err |-> TRUE,
          trace |-> <<Step("write", New(path), written, FALSE),
                      Step("rename", path, written, TRUE)>>]
    ELSE [st |-> Put(Remove(written, New(path)), path, newBytes), err |-> FALSE,
          trace |-> <<Step("write", New(path), written, FALSE),
                      Step("rename", path,
                           Put(Remove(written, New(path)), path, newBytes), FALSE)>>]

\* writeNInfo with newBytes the result of MarshalText: (st, err, trace); the
\* trace lists the file operations done, each with the file system after it
writeNInfo(st, backend, path, newBytes, fault) ==
    IF backend = "s3"
    THEN [st |-> WriteFile(st, path, newBytes, fault).st,
          err |-> WriteFile(st, path, newBytes, fault).err,
          trace |-> <<Step("write", path, WriteFile(st, path, newBytes, fault).st,
                           WriteFile(st, path, newBytes, fault).err)>>]
    ELSE IF WriteFile(st, New(path), newBytes, fault).err
    THEN [st |-> WriteFile(st, New(path), newBytes, fault).st, err |-> TRUE,
          trace |-> <<Step("write", New(path),
                           WriteFile(st, New(path), newBytes, fault).st, TRUE)>>]
    ELSE Renamed(WriteFile(st, New(path), newBytes, fault).st, path, newBytes, fault)

\* the signers of the sign command: the clauses of the signing map, or the
\* one signer of the unconditional case
Conditional(clause) == [all |-> FALSE, clause |-> clause, keys |-> <<>>]
Unconditional(keys) == [all |-> TRUE, clause |-> NoClause, keys |-> keys]

\* the unconditional signer (verify.go 185-198): (n, didSign, err)
RECURSIVE SignReplaceWithAll(_, _, _)
SignReplaceWithAll(n, keys, didSign) ==
    IF keys = <<>> THEN [n |-> n, didSign |-> didSign, err |-> FALSE]
    ELSE IF SignReplaceByName(n, Head(keys)).err
    THEN [n |-> SignReplaceByName(n, Head(keys)).n,
          didSign |-> SignReplaceByName(n, Head(keys)).added, err |-> TRUE]
    ELSE SignReplaceWithAll(SignReplaceByName(n, Head(keys)).n, Tail(keys),
                            didSign \/ SignReplaceByName(n, Head(keys)).added)

RunSigner(s, n) ==
    IF s.all THEN SignReplaceWithAll(n, s.keys, FALSE) ELSE Resign(s.clause, n)

\* the loop over the signers in the callback of Sign (verify.go 211-223):
\* (n, errDuringSigning, didNewSignature)
RECURSIVE SignLoop(_, _, _, _)
\* the loop step that does not remember a signer's error
SignLoopNextDropsError(r, rest, errDuringSigning, didNewSignature) ==
    SignLoop(rest, r.n, errDuringSigning, didNewSignature \/ r.didSign)
SignLoopNext(r, rest, errDuringSigning, didNewSignature) ==
    IF r.err THEN SignLoop(rest, r.n, TRUE, didNewSignature)
    ELSE SignLoop(rest, r.n, errDuringSigning, didNewSignature \/ r.didSign)
SignLoop(list, n, errDuringSigning, didNewSignature) ==
    IF list = <<>>
    THEN [n |-> n, err |-> errDuringSigning, did |-> didNewSignature]
    ELSE SignLoopNext(RunSigner(Head(list), n), Tail(list),
                      errDuringSigning, didNewSignature)

\* what the callback did for one path
NoItem ==
    [path |-> <<>>, loadErr |-> FALSE, sigErr |-> FALSE, did |-> FALSE, code |-> "",
     backupErr |-> FALSE, backedUp |-> FALSE, wrote |-> FALSE, writeErr |-> FALSE,
     old |-> <<>>, new |-> <<>>, before |-> {}, trace |-> <<>>]
ItemAt(st, path) ==
    [NoItem EXCEPT !.path = path, !.before = st,
                   !.old = IF Exists(st, path) THEN ReadFile(st, path) ELSE <<>>]

\* "<path>:<CODE>:<detail>\n"
OutLine(path, code, detail) == path \o <<COLON, W(code), COLON>> \o detail \o <<NL>>
SignatureStrings(n) == Join([i \in DOMAIN n.Sig |-> NixSignatureString(n.Sig[i])], SP)

\* the result of a callback: the file system, the bytes written to stdout,
\* the error returned and the record of the item
Done(st, outb, err, item) == [st |-> st, outb |-> outb, err |-> err, item |-> item]

\* the callback after writeNInfo was called; its error is dropped
Written(w, outb, item, newBytes) ==
    Done(w.st, outb, FALSE,
         [item EXCEPT !.wrote = TRUE, !.writeErr = w.err, !.new = newBytes,
                      !.trace = w.trace])

\* the callback from the backup on: backNinfo if asked for, then writeNInfo
\* and the line with code
BackupAndWrite(b, backup, backend, path, newBytes, fault, code, detail, item) ==
    IF backup /\ b.err
    THEN Done(b.st, <<>>, FALSE, [item EXCEPT !.backupErr = TRUE])
    ELSE IF backup
    THEN Written(writeNInfo(b.st, backend, path, newBytes, fault),
                 OutLine(path, code, detail), [item EXCEPT !.backedUp = TRUE], newBytes)
    ELSE Written(writeNInfo(item.before, backend, path, newBytes, fault),
                 OutLine(path, code, detail), item, newBytes)

\* the callback of Sign after the loop over the signers (verify.go 230-254)
SignedPath(r, st, path, backend, backup, fault, extraOrder, item) ==
    IF r.err
    THEN Done(st, OutLine(path, "FAILSIGN", SignatureStrings(r.n)), FALSE,
              [item EXCEPT !.sigErr = TRUE, !.did = r.did, !.code = "FAILSIGN"])
    ELSE IF ~r.did
    THEN Done(st, OutLine(path, "NOCHANGE", SignatureStrings(r.n)), FALSE,
              [item EXCEPT !.code = "NOCHANGE"])
    ELSE BackupAndWrite(backNinfo(st, path, fault), backup, backend, path,
                        MarshalTextIn(r.n, extraOrder), fault,
                        "SIGNUPDT", SignatureStrings(r.n),
                        [item EXCEPT !.did = TRUE, !.code = "SIGNUPDT"])

\* the callback of Sign after loadNarInfo
SignLoaded(loaded, st, list, path, backend, backup, fault, extraOrder) ==
    IF loaded.err
    THEN Done(st, <<>>, FALSE, [ItemAt(st, path) EXCEPT !.loadErr = TRUE])
    ELSE SignedPath(SignLoop(list, loaded.n, FALSE, FALSE), st, path, backend, backup,
                    fault, extraOrder, ItemAt(st, path))

\* the callback of Sign for one path (verify.go 201-255)
SignPath(st, list, path, backend, backup, fault, extraOrder) ==
    SignLoaded(LoadNarInfo(st, path), st, list, path, backend, backup, fault, extraOrder)

\* the callback of Verify after the loop over the keys (verify.go 83-115)
VerifiedPath(verifiedKeys, st, path) ==
    IF verifiedKeys # <<>>
    THEN Done(st, path \o <<COLON, W("GOODSIGN"), COLON>>
                   \o Join([i \in DOMAIN verifiedKeys |-> verifiedKeys[i].KeyName], SP)
                   \o <<NL>>,
              FALSE, [ItemAt(st, path) EXCEPT !.code = "GOODSIGN"])
    ELSE Done(st, path \o <<COLON, W("FAILSIGN"), COLON, NL>>, FALSE,
              [ItemAt(st, path) EXCEPT !.code = "FAILSIGN"])

VerifyLoaded(loaded, st, verifyKeys, path) ==
    IF loaded.err
    THEN Done(st, path \o <<COLON>>, FALSE, [ItemAt(st, path) EXCEPT !.loadErr = TRUE])
    ELSE VerifiedPath(SelectSeq(verifyKeys, LAMBDA key : Verify(loaded.n, key).ok),
                      st, path)

\* the callback of Verify for one path (verify.go 60-116)
VerifyPath(st, verifyKeys, path) ==
    VerifyLoaded(LoadNarInfo(st, path), st, verifyKeys, path)

\* the callback of Validate after UnmarshalText and MarshalText (part_006 51-78)
Remarshalled(fileBytes, remarshalled, st, path, backend, backup, fix, fault) ==
    IF fileBytes = remarshalled
    THEN Done(st, path \o <<COLON, W("GOODFORM"), COLON, NL>>, FALSE,
              [ItemAt(st, path) EXCEPT !.code = "GOODFORM"])
    ELSE IF ~fix
    THEN Done(st, OutLine(path, "FAILFORM", <<W("On-Disk Does Not Match Reserialization")>>),
              FALSE, [ItemAt(st, path) EXCEPT !.code = "FAILFORM"])
    ELSE BackupAndWrite(backNinfo(st, path, fault), backup, backend, path,
                        remarshalled, fault,
                        "FIXEDFRM", <<W("Updated On-Disk Format")>>,
                        [ItemAt(st, path) EXCEPT !.code = "FIXEDFRM"])

ValidateRead(u, fileBytes, st, path, backend, backup, fix, fault, extraOrder) ==
    IF u.err
    THEN Done(st, OutLine(path, "FAILREAD", <<W("err.Error()")>>), FALSE,
              [ItemAt(st, path) EXCEPT !.loadErr = TRUE, !.code = "FAILREAD"])
    ELSE Remarshalled(fileBytes, MarshalTextIn(u.n, extraOrder), st, path,
                      backend, backup, fix, fault)

\* the callback of Validate for one path (part_006 22-79); a file that cannot
\* be read makes the callback return the error
ValidatePath(st, path, backend, backup, fix, fault, extraOrder) ==
    IF ~Exists(st, path)
    THEN Done(st, <<>>, TRUE, [ItemAt(st, path) EXCEPT !.loadErr = TRUE])
    ELSE ValidateRead(UnmarshalText(ReadFile(st, path)), ReadFile(st, path), st, path,
                      backend, backup, fix, fault, extraOrder)

\* what the file system may hold at a path: a manifest signed by A, one signed
\* by X with an extra field, a manifest that is not in canonical form, and
\* bytes that are no manifest
LooseManifest ==
    TextOf(BaseLines(Line("References", <<>>), HashText(1), <<DEC(10, 0)>>,
                     <<Line("Sig", SigText("A", 1) \o <<SP>> \o SigText("T", 2))>>, <<>>))
Garbage == <<W("garbage"), NL>>
BatchObjects ==
    { StoredManifest(<<<<"A", 1>>>>, <<>>), StoredManifest(<<<<"X", 5>>>>, OneExtra),
      LooseManifest, Garbage }
BatchStores ==
    { a \cup b :
        a \in {{}} \cup {{<<PathA, o>>} : o \in BatchObjects},
        b \in {{}} \cup {{<<PathB, o>>} : o \in {StoredManifest(<<<<"A", 1>>>>, <<>>), Garbage}} }

\* the keys loaded and the signing map given to a run of sign: without a map
\* one key, a key that cannot sign, two keys of one name; the last map names
\* a private key that is not loaded
SignSetups ==
    { [keys |-> <<PrivKey("X", 5)>>, map |-> <<>>],
      [keys |-> <<PrivKey("X", 5), PrivKey("K", 9)>>, map |-> <<>>],
      [keys |-> <<PrivKey("X", 5), PrivKey("X", 7)>>, map |-> <<>>],
      [keys |-> <<PrivKey("X", 5), PrivKey("Y", 6)>>,
       map |-> <<Entry(<<W("A")>>, <<W("X"), COMMA, W("Y")>>)>>],
      [keys |-> <<PrivKey("X", 5), PrivKey("K", 9)>>,
       map |-> <<Entry(<<W("A")>>, <<W("X"), COMMA, W("K")>>)>>],
      [keys |-> <<PrivKey("X", 5)>>, map |-> <<Entry(<<W("A")>>, <<W("Y")>>)>>] }

\* the command lines: command, --fs-backend, the command's own
\* --backup-nar-infos, --fix
CommandLine(cmd, backend, backup, fix) ==
    [cmd |-> cmd, backend |-> backend, backup |-> backup, fix |-> fix]
CommandLines ==
    { CommandLine("sign", "file", FALSE, FALSE), CommandLine("sign", "file", TRUE, FALSE),
      CommandLine("sign", "s3", FALSE, FALSE),
      CommandLine("verify", "file", FALSE, FALSE),
      CommandLine("validate", "file", FALSE, FALSE),
      CommandLine("validate", "file", FALSE, TRUE),
      CommandLine("validate", "file", TRUE, TRUE),
      CommandLine("validate", "s3", FALSE, TRUE) }

\* CLI.Sign.BackupNARInfos in a run of the command line c: the option of
\* sign when sign runs, its default otherwise
SignBackupNARInfos(c) == c.cmd = "sign" /\ c.backup

NewRun(c, paths) ==
    [pc |-> "start", cmd |-> c.cmd, backend |-> c.backend, backup |-> c.backup,
     signBackup |-> SignBackupNARInfos(c),
     fix |-> c.fix, given |-> paths, paths |-> paths, stdout |-> <<>>, items |-> <<>>,
     err |-> FALSE, exit |-> -1]

InitBatch ==
    /\ \E c \in CommandLines, paths \in PathLists : run = NewRun(c, paths)
    /\ store \in BatchStores
    /\ \E k \in SignSetups :
          /\ privateKeys = (IF run.cmd = "sign" THEN k.keys ELSE <<>>)
          /\ signingMap = (IF run.cmd = "sign" THEN k.map ELSE <<>>)
    /\ signers = NotBuilt
    /\ ninfo = ZeroNarInfo /\ hist = [prev |-> NoOp, last |-> NoOp]
    /\ text = <<>> /\ dec = NotDecoded /\ out = NotEncoded
    /\ req = NoRequest /\ resp = NoResponses
    /\ srv = NoServer /\ kf = NoKeyFile
    /\ rec = NoRecurse /\ pipe = NoPipe

BatchUnchanged ==
    UNCHANGED <<privateKeys, signingMap, ninfo, hist, text, dec, out, req, resp, srv, kf,
                rec, pipe>>

\* Entrypoint's return after dispatchCommands, whatever the command returned
ExitStatus(err) == 0

\* the command returns err
Returned(r, err) == [r EXCEPT !.pc = "done", !.err = err, !.exit = ExitStatus(err)]

\* the signers Sign sets up (verify.go 176-199) from the compiled map b
SignersOf(b, keys, map) ==
    IF map # <<>>
    THEN [built |-> TRUE, ok |-> b.setupErr = <<>>,
          list |-> [i \in DOMAIN b.signers |-> Conditional(b.signers[i])],
          setupErr |-> b.setupErr]
    ELSE [built |-> TRUE, ok |-> TRUE, list |-> <<Unconditional(keys)>>, setupErr |-> <<>>]

\* the command up to its call of readPaths: the keys are loaded and, for
\* sign, the signers set up; a setup error ends the command
StartCommand ==
    /\ run.pc = "start"
    /\ \E visit \in MapOrders(signingMap) :
          signers' = IF run.cmd = "sign"
                     THEN SignersOf(BuildSigningMap(publicKeys, privateKeys, visit),
                                    privateKeys, signingMap)
                     ELSE signers
    /\ run' = IF signers'.built /\ ~signers'.ok THEN Returned(run, TRUE)
              ELSE [run EXCEPT !.pc = "paths"]
    /\ UNCHANGED store
    /\ BatchUnchanged

\* readPaths after the callback returned r for the first of the paths left
AfterCallback(r) ==
    /\ store' = r.st
    /\ run' = IF r.err
              THEN Returned([run EXCEPT !.stdout = @ \o r.outb,
                                        !.items = Append(@, r.item)], TRUE)
              ELSE [run EXCEPT !.paths = Tail(@), !.stdout = @ \o r.outb,
                               !.items = Append(@, r.item)]
    /\ UNCHANGED signers
    /\ BatchUnchanged

SignNext ==
    /\ run.pc = "paths" /\ run.cmd = "sign" /\ run.paths # <<>>
    /\ \E fault \in Faults, o \in StoredExtraOrders(store, Head(run.paths)) :
          AfterCallback(SignPath(store, signers.list, Head(run.paths), run.backend,
                                 run.signBackup, fault, o))

VerifyNext ==
    /\ run.pc = "paths" /\ run.cmd = "verify" /\ run.paths # <<>>
    /\ AfterCallback(VerifyPath(store, publicKeys, Head(run.paths)))

ValidateNext ==
    /\ run.pc = "paths" /\ run.cmd = "validate" /\ run.paths # <<>>
    /\ \E fault \in Faults, o \in StoredExtraOrders(store, Head(run.paths)) :
          AfterCallback(ValidatePath(store, Head(run.paths), run.backend, run.signBackup,
                                     run.fix, fault, o))

\* readPaths has handed over every path: the command returns nil
EndCommand ==
    /\ run.pc = "paths" /\ run.paths = <<>>
    /\ run' = Returned(run, FALSE)
    /\ UNCHANGED <<store, signers>>
    /\ BatchUnchanged

NextBatch ==
    \/ StartCommand
    \/ SignNext
    \/ VerifyNext
    \/ ValidateNext
    \/ EndCommand

SpecBatch == InitBatch /\ [][NextBatch]_vars

\* ------------------------------------------------ claims on the batch commands
\* the results of the signers applied one after the other to n
RECURSIVE SignerOutcomes(_, _)
SignerOutcomes(list, n) ==
    IF list = <<>> THEN <<>>
    ELSE <<RunSigner(Head(list), n)>>
         \o SignerOutcomes(Tail(list), RunSigner(Head(list), n).n)
SignerFailed(o) == \E i \in DOMAIN o : o[i].err
SignerAdded(o) == \E i \in DOMAIN o : ~o[i].err /\ o[i].didSign

\* the file system after the i-th item was handled
StoreAfter(i) == IF i < Len(run.items) THEN run.items[i + 1].before ELSE store

\* the three outcomes of sign for the manifest loaded for item it, given the
\* results o of the signers
SignOutcome(it, after, o) ==
    /\ SignerFailed(o)
       => /\ ~it.backedUp /\ ~it.wrote /\ after = it.before
          /\ it.code = "FAILSIGN"
    /\ (~SignerFailed(o) /\ ~SignerAdded(o))
       => /\ ~it.wrote /\ after = it.before
          /\ it.code = "NOCHANGE"
    /\ (it.wrote \/ it.code = "SIGNUPDT" \/ after # it.before)
       => (SignerAdded(o) /\ ~SignerFailed(o))

\* C14: for every manifest the sign command loads: if a signer returns an
\* error the file is neither backed up nor rewritten and FAILSIGN is reported;
\* if no signer added a signature nothing is written and NOCHANGE is
\* reported; the file is written, and SIGNUPDT reported, only when a
\* signature was added and no signer failed.
C14_SignOutcomes ==
    run.cmd = "sign"
    => \A i \in DOMAIN run.items :
          ~run.items[i].loadErr
          => SignOutcome(run.items[i], StoreAfter(i),
                         SignerOutcomes(signers.list,
                             LoadNarInfo(run.items[i].before, run.items[i].path).n))

C14_Witness ==
    /\ run.cmd = "sign" /\ run.pc = "done"
    /\ \E i, j \in DOMAIN run.items :
          /\ run.items[i].code = "NOCHANGE"
          /\ run.items[j].code = "SIGNUPDT" /\ run.items[j].wrote
          /\ ~run.items[j].writeErr
          /\ ReadFile(store, run.items[j].path) = run.items[j].new

\* the bytes at path in st
Holds(st, path, bytes) == Exists(st, path) /\ ReadFile(st, path) = bytes
RenamedAt(trace, k) == trace[k].op = "rename" /\ ~trace[k].err

\* writeNInfo on a filesystem store, for an item whose file held it.old
AtomicReplace(it) ==
    /\ it.trace[1].op = "write" /\ it.trace[1].path = New(it.path)
    /\ Len(it.trace) > 1
       => /\ Len(it.trace) = 2 /\ ~it.trace[1].err
          /\ it.trace[2].op = "rename" /\ it.trace[2].path = it.path
    /\ \A k \in DOMAIN it.trace :
          /\ Holds(it.trace[k].st, it.path, it.old) \/ Holds(it.trace[k].st, it.path, it.new)
          /\ (\A j \in 1..k : ~RenamedAt(it.trace, j))
             => Holds(it.trace[k].st, it.path, it.old)
          /\ RenamedAt(it.trace, k) => Holds(it.trace[k].st, it.path, it.new)
    /\ it.writeErr <=> (\A k \in DOMAIN it.trace : ~RenamedAt(it.trace, k))

\* writeNInfo on an S3 store
InPlace(it) ==
    /\ Len(it.trace) = 1
    /\ it.trace[1].op = "write" /\ it.trace[1].path = it.path
    /\ ~Exists(it.trace[1].st, New(it.path))
    /\ ~it.writeErr => Holds(it.trace[1].st, it.path, it.new)

\* C15: on a filesystem store writeNInfo writes the new bytes to <name>.new
\* and then renames it over the target: after each of its steps the target
\* holds the complete old or the complete new bytes, and it holds the old
\* bytes as long as the rename has not succeeded.  On an S3 store it writes
\* the target in place: no .new object exists and nothing is renamed.
C15_WriteNInfo ==
    \A i \in DOMAIN run.items :
        run.items[i].wrote
        => IF run.backend = "s3" THEN InPlace(run.items[i])
           ELSE AtomicReplace(run.items[i])

C15_Witness ==
    /\ run.backend = "file"
    /\ \E i, j \in DOMAIN run.items :
          /\ run.items[i].wrote /\ ~run.items[i].writeErr
          /\ Len(run.items[i].trace) = 2
          /\ run.items[i].old # run.items[i].new
          /\ Holds(store, run.items[i].path, run.items[i].new)
          /\ ~Exists(store, New(run.items[i].path))
          /\ run.items[j].wrote /\ run.items[j].writeErr
          /\ run.items[j].path # run.items[i].path
          /\ Holds(store, run.items[j].path, run.items[j].old)

\* the codes that report a failed item, and an item that failed
FailCodes == {"FAILSIGN", "FAILHASH", "FAILFORM", "FAILREAD", "FAILMRSL"}
ItemFailed(it) == it.loadErr \/ it.code \in FailCodes \/ it.backupErr \/ it.writeErr
ReachedPaths == run.pc = "done" /\ ~(run.cmd = "sign" /\ ~signers.ok)

\* C16 as claimed: a batch command hands every path it was given to its
\* callback, whatever happened to the paths before it, and the process exits
\* with a status other than 0 when at least one item failed.
C16_BatchStatus ==
    ReachedPaths
    => /\ [i \in DOMAIN run.items |-> run.items[i].path] = run.given
       /\ (\E i \in DOMAIN run.items : ItemFailed(run.items[i])) => run.exit # 0

\* the result codes and a complete line "<path>:<CODE>:<detail>"
Codes ==
    {"GOODSIGN", "FAILSIGN", "GOODHASH", "FAILHASH", "GOODFORM", "FAILFORM",
     "FAILREAD", "FAILMRSL", "SIGNUPDT", "NOCHANGE", "FIXEDFRM"}
LineFor(line, path) ==
    /\ Len(line) >= Len(path) + 3
    /\ IsPrefix(path \o <<COLON>>, line)
    /\ line[Len(path) + 2] \in {W(c) : c \in Codes}
    /\ line[Len(path) + 3] = COLON

\* stdout cut at the line feeds; the bytes after the last one come last
StdoutLines == Split(run.stdout, NL)

\* C17 as claimed: when the command is through, stdout holds for every path
\* given, in order, exactly one complete line <path>:<CODE>:<detail> whose
\* code is one of the result codes, and nothing else.
C17_OneLinePerPath ==
    ReachedPaths
    => /\ Len(StdoutLines) = Len(run.given) + 1
       /\ StdoutLines[Len(StdoutLines)] = <<>>
       /\ \A i \in DOMAIN run.given : LineFor(StdoutLines[i], run.given[i])

\* ------------------------------------------------------ key files (SpecKeys)
\* ParsePublicKeys and ParsePrivateKeys on the bytes of a key file.  A key
\* is written <name>:<base64>; the bytes behind the base64 text are modelled
\* as <<"key", id, size>>, size being their number.
MaxKeyLines == 2

TAB == <<"\t">>
HASH == <<"#">>
PublicKeySize == 32
PrivateKeySize == 64

KeyBytes(id, size) == <<"key", id, size>>
KeyText(name, id, size) == <<W(name), COLON, B64(KeyBytes(id, size), FALSE)>>

\* strings.CutSuffix(s, suffix), the string it returns
CutSuffix(s, suffix) ==
    IF Len(s) >= Len(suffix) /\ SubSeq(s, Len(s) - Len(suffix) + 1, Len(s)) = suffix
    THEN SubSeq(s, 1, Len(s) - Len(suffix)) ELSE s

\* the lines bufio.Scanner yields for text
ScanLines(b) ==
    IF b = <<>> THEN <<>>
    ELSE IF b[Len(b)] = NL THEN Split(SubSeq(b, 1, Len(b) - 1), NL)
    ELSE Split(b, NL)

\* the lines commentedLineParser keeps, as it keeps them
RECURSIVE commentedLineParser(_)
KeptLine(line) ==
    IF line = <<>> \/ Head(line) = HASH THEN <<>>
    ELSE <<CutSuffix(CutSuffix(line, <<SP, HASH>>), <<TAB, HASH>>)>>
commentedLineParser(scanned) ==
    IF scanned = <<>> THEN <<>>
    ELSE KeptLine(TrimSpace(Head(scanned))) \o commentedLineParser(Tail(scanned))

\* NamedPublicKey.UnmarshalText / NamedPrivateKey.UnmarshalText with the key
\* size they require: (err, key)
NoParsedKey == [err |-> TRUE, key |-> NoKey]
DecodedKey(keyName, keyBytes, size) ==
    IF keyBytes = Err \/ keyBytes = <<>> THEN NoParsedKey
    ELSE IF keyBytes[3] # size THEN NoParsedKey
    ELSE [err |-> FALSE, key |-> [KeyName |-> keyName, Key |-> keyBytes[2]]]
KeyUnmarshalText(t, size) ==
    IF ~Cut(t, COLON).found THEN NoParsedKey
    ELSE DecodedKey(Cut(t, COLON).before, Base64Decode(Cut(t, COLON).after), size)

\* the loop of ParsePublicKeys / ParsePrivateKeys: lines that fail to parse
\* are put aside
RECURSIVE ParseLines(_, _)
ParseLines(lines, size) ==
    IF lines = <<>> THEN <<>>
    ELSE (IF KeyUnmarshalText(Head(lines), size).err THEN <<>>
          ELSE <<KeyUnmarshalText(Head(lines), size).key>>)
         \o ParseLines(Tail(lines), size)

ParsePublicKeys(b) == ParseLines(commentedLineParser(ScanLines(b)), PublicKeySize)
ParsePrivateKeys(b) == ParseLines(commentedLineParser(ScanLines(b)), PrivateKeySize)

\* the lines a key file may hold, for keys of the given size
KeyLines(size) ==
    { <<>>,
      <<SP, SP>>,
      <<HASH, SP, W("a comment")>>,
      <<SP, HASH, W("an indented comment")>>,
      KeyText("A", 1, size),
      <<SP>> \o KeyText("B", 2, size) \o <<SP>>,
      KeyText("C", 3, size) \o <<SP, HASH, W("comment")>>,
      KeyText("D", 4, size) \o <<TAB, HASH, W("comment")>>,
      KeyText("E", 5, size) \o <<SP, HASH>>,
      KeyText("F", 6, size) \o <<TAB, HASH>>,
      <<W("no colon")>>,
      KeyText("G", 7, size + 1) }

KeyFiles(size) == {TextOf(l) : l \in UNION {[1..k -> KeyLines(size)] : k \in 0..MaxKeyLines}}

KeyFile(kind, b) == [pc |-> "file", kind |-> kind, text |-> b, keys |-> <<>>]

InitKeys ==
    /\ \/ \E b \in KeyFiles(PublicKeySize) : kf = KeyFile("public", b)
       \/ \E b \in KeyFiles(PrivateKeySize) : kf = KeyFile("private", b)
    /\ privateKeys = <<>> /\ signingMap = <<>>
    /\ ninfo = ZeroNarInfo /\ hist = [prev |-> NoOp, last |-> NoOp]
    /\ text = <<>> /\ dec = NotDecoded /\ out = NotEncoded
    /\ store = {} /\ signers = NotBuilt /\ req = NoRequest /\ resp = NoResponses
    /\ srv = NoServer /\ run = NoRun
    /\ rec = NoRecurse /\ pipe = NoPipe

KeysUnchanged ==
    UNCHANGED <<privateKeys, signingMap, ninfo, hist, text, dec, out,
                store, signers, req, resp, srv, run,
                rec, pipe>>

DoParsePublicKeys ==
    /\ kf.pc = "file" /\ kf.kind = "public"
    /\ kf' = [kf EXCEPT !.pc = "parsed", !.keys = ParsePublicKeys(kf.text)]
    /\ KeysUnchanged

DoParsePrivateKeys ==
    /\ kf.pc = "file" /\ kf.kind = "private"
    /\ kf' = [kf EXCEPT !.pc = "parsed", !.keys = ParsePrivateKeys(kf.text)]
    /\ KeysUnchanged

NextKeys ==
    \/ DoParsePublicKeys
    \/ DoParsePrivateKeys

SpecKeys == InitKeys /\ [][NextKeys]_vars

\* ---------------------------------------------------- claims on key files
KeySize == IF kf.kind = "public" THEN PublicKeySize ELSE PrivateKeySize

\* a line without the comment that follows a key: everything from the first
\* " #" or tab-"#" on is dropped
RECURSIVE StripComment(_)
StripComment(line) ==
    IF Len(line) < 2 THEN line
    ELSE IF line[1] \in {SP, TAB} /\ line[2] = HASH THEN <<>>
    ELSE <<Head(line)>> \o StripComment(Tail(line))

IsKeyLine(line) == TrimSpace(line) # <<>> /\ Head(TrimSpace(line)) # HASH
KeyOf(line) == KeyUnmarshalText(TrimSpace(StripComment(TrimSpace(line))), KeySize)
KeyLinesOf(b) == SelectSeq(ScanLines(b), IsKeyLine)

\* C18 as claimed: of a file whose key lines are well-formed keys, each
\* possibly followed by " #comment" or tab-"#comment", the parser returns one
\* key per line that is neither blank nor a comment, the comment stripped.
C18_OneKeyPerLine ==
    (/\ kf.pc = "parsed"
     /\ \A i \in DOMAIN KeyLinesOf(kf.text) : ~KeyOf(KeyLinesOf(kf.text)[i]).err)
    => kf.keys = [i \in DOMAIN KeyLinesOf(kf.text) |-> KeyOf(KeyLinesOf(kf.text)[i]).key]

\* ------------------------------------------- claims on the compiled clauses
\* the loaded private keys the entry names as signers
NamedSigners(entry) ==
    {k \in Range(privateKeys) : k.KeyName \in Range(Split(entry[2], COMMA))}
SignatureOf(k, n) ==
    [KeyName |-> k.KeyName, Signature |-> <<"sig", k.Key, Fingerprint(n), 0>>]
Served == UnmarshalText(resp.GET.w.body).n
ServedManifest ==
    /\ resp.GET.done /\ HasNarInfoSuffix(req.name) /\ ~Stored.err /\ resp.GET.errs = 0

\* C19 as claimed: when the stored manifest satisfies a clause, the manifest
\* served carries a signature by every loaded private key the clause names
\* as signer, also when two loaded keys share the name.
C19_EveryNamedKeySigns ==
    ServedManifest
    => \A i \in DOMAIN signingMap :
          Matches(DeclaredSigners[i], Stored.n)
          => \A k \in NamedSigners(signingMap[i]) :
                SignatureOf(k, Stored.n) \in Range(Served.Sig)

\* C20 as claimed: the set of signatures of the manifest served does not
\* depend on the order in which the signing map was ranged over when the
\* clauses were compiled: it is the set the clauses give in declared order.
C20_OrderIndependent ==
    ServedManifest
    => Range(Served.Sig) = Range(ResignAll(DeclaredSigners, Stored.n).Sig)

\* ------------------------------------------- claims on the setup of signers
\* the names an entry gives on its two sides, and those no loaded key carries
PubNames(entry) == Range(Split(entry[1], AMP)) \ {<<>>}
PrivNames(entry) == Range(Split(entry[2], COMMA))
LoadedPub == {publicKeys[i].KeyName : i \in DOMAIN publicKeys}
LoadedPriv == {privateKeys[i].KeyName : i \in DOMAIN privateKeys}
MissingNames ==
    {<<"public", n>> : n \in UNION {PubNames(e) : e \in Range(signingMap)} \ LoadedPub}
      \cup {<<"private", n>> :
              n \in UNION {PrivNames(e) : e \in Range(signingMap)} \ LoadedPriv}
RequiredNames(clause) == {clause.requiredKeys[i].KeyName : i \in DOMAIN clause.requiredKeys}

\* C21: the error buildSigningMap returns names every public-key name and
\* every private-key name of the map that no loaded key carries, and is nil
\* when there is none; an empty name on the public side is no error and no
\* requirement of the clause; with a setup error no request is handled and
\* the sign command hands no path to its callback.
C21_SetupErrors ==
    (signers.built /\ signingMap # <<>>)
    => /\ Range(signers.setupErr) = MissingNames
       /\ signers.ok <=> MissingNames = {}
       /\ {RequiredNames(IF "all" \in DOMAIN s THEN s.clause ELSE s) :
              s \in Range(signers.list)}
            = {PubNames(e) \cap LoadedPub : e \in Range(signingMap)}
       /\ ~signers.ok
          => /\ ~req.set /\ ~resp.GET.done /\ ~resp.HEAD.done
             /\ run.pc # "off" => (run.pc = "done" /\ run.err /\ run.items = <<>>)

C21_Witness ==
    /\ signers.built /\ ~signers.ok
    /\ Cardinality(Range(signers.setupErr)) = 4
    /\ \E n \in Range(signers.setupErr) : n[1] = "public"
    /\ \E n \in Range(signers.setupErr) : n[1] = "private"

\* C22: the policy is compiled once and before the listeners are opened: a
\* step opens the listeners only when the policy has been compiled without
\* error, and no step, in particular no request handler, changes the
\* compiled clauses once they exist.
C22_CompiledOnce ==
    [][/\ signers.built => signers' = signers
       /\ srv'.pc # "off" => (signers.built /\ signers.ok /\ signers' = signers)]_vars

C22_Witness ==
    /\ srv.pc = "serving" /\ Len(signers.list) = 2
    /\ resp.GET.done /\ resp.HEAD.done
    /\ ServedManifest /\ Served.Sig # Stored.n.Sig

\* ------------------------------- recursive traversal of a store (SpecRecurse)
\* recurseRealizations and recurseDerivations share one structure: rounds of
\* paths, one worker goroutine per path started under a weighted semaphore,
\* an unbuffered error channel per round drained by a collector goroutine,
\* and a context per round that the collector cancels in strict mode.
NumCPU == 2

PathP == "p"
PathQ == "q"
PathR == "r"
NoRefs == [n \in {PathP, PathQ, PathR} |-> <<>>]
Graph(paths, refs, bad, recurse) ==
    [paths |-> paths, refs |-> refs, bad |-> bad, recurse |-> recurse]

\* the stores walked: flat, with a missing manifest, with a self reference and
\* a cycle, with a shared reference, and one walked without recursion
Graphs ==
    { Graph(<<PathP, PathQ, PathR>>, NoRefs, {}, TRUE),
      Graph(<<PathP, PathQ>>, [NoRefs EXCEPT ![PathP] = <<PathR>>], {PathQ}, TRUE),
      Graph(<<PathP>>, [NoRefs EXCEPT ![PathP] = <<PathP, PathQ>>,
                                      ![PathQ] = <<PathP>>], {}, TRUE),
      Graph(<<PathP, PathQ, PathR>>, NoRefs, {PathP}, TRUE),
      Graph(<<PathP>>, NoRefs, {PathP}, TRUE),
      Graph(<<PathP, PathQ>>, [NoRefs EXCEPT ![PathP] = <<PathR>>,
                                             ![PathQ] = <<PathR>>,
                                             ![PathR] = <<PathP>>], {}, TRUE),
      Graph(<<PathP>>, [NoRefs EXCEPT ![PathP] = <<PathQ>>], {}, FALSE) }

NewRecurse(g, strict) ==
    [pc |-> "top", g |-> g, strict |-> strict,
     round |-> 0, current |-> <<>>, idx |-> 1,
     nextPaths |-> g.paths, seenPaths |-> {}, sem |-> 0,
     workers |-> <<>>, collectors |-> <<>>,
     cancelled |-> {}, closed |-> {},
     hadErrors |-> FALSE, readErr |-> FALSE, ret |-> "none",
     reported |-> FALSE, lateStart |-> FALSE, queued |-> <<>>]

InitRecurse ==
    /\ \E g \in Graphs, strict \in BOOLEAN : rec = NewRecurse(g, strict)
    /\ privateKeys = <<>> /\ signingMap = <<>>
    /\ ninfo = ZeroNarInfo /\ hist = [prev |-> NoOp, last |-> NoOp]
    /\ text = <<>> /\ dec = NotDecoded /\ out = NotEncoded
    /\ store = {} /\ signers = NotBuilt /\ req = NoRequest /\ resp = NoResponses
    /\ srv = NoServer /\ run = NoRun /\ kf = NoKeyFile /\ pipe = NoPipe

RecurseUnchanged ==
    UNCHANGED <<privateKeys, signingMap, ninfo, hist, text, dec, out,
                store, signers, req, resp, srv, run, kf, pipe>>

\* the loop head: a round takes the paths collected so far, makes its error
\* channel and its context and starts its collector
NextRound ==
    /\ rec.pc = "top" /\ rec.nextPaths # <<>>
    /\ rec' = [rec EXCEPT !.pc = "read", !.round = @ + 1,
                          !.current = rec.nextPaths, !.nextPaths = <<>>,
                          !.idx = 1, !.readErr = FALSE,
                          !.collectors = @ @@ (rec.round + 1 :> "recv")]
    /\ RecurseUnchanged

LoopEnd ==
    /\ rec.pc = "top" /\ rec.nextPaths = <<>>
    /\ rec' = [rec EXCEPT !.pc = "ret"]
    /\ RecurseUnchanged

\* a semaphore that admits any number of holders
AcquireUnbounded ==
    /\ rec.pc = "read" /\ rec.idx <= Len(rec.current)
    /\ IF rec.round \in rec.cancelled
       THEN rec' = [rec EXCEPT !.readErr = TRUE, !.pc = "wait"]
       ELSE rec' = [rec EXCEPT !.sem = @ + 1, !.idx = @ + 1,
                     !.workers = @ @@ (rec.current[rec.idx] :>
                                         [pc |-> "run", val |-> "nil"]),
                     !.lateStart = @ \/ rec.reported]
    /\ RecurseUnchanged

\* readPaths calls the callback for the next path: sem.Acquire fails when the
\* round's context is cancelled and ends the round's reading; otherwise it
\* waits for a free unit, and the worker of the path is started
Acquire ==
    /\ rec.pc = "read" /\ rec.idx <= Len(rec.current)
    /\ IF rec.round \in rec.cancelled
       THEN rec' = [rec EXCEPT !.readErr = TRUE, !.pc = "wait"]
       ELSE /\ rec.sem < NumCPU
            /\ rec' = [rec EXCEPT !.sem = @ + 1, !.idx = @ + 1,
                        !.workers = @ @@ (rec.current[rec.idx] :>
                                            [pc |-> "run", val |-> "nil"]),
                        !.lateStart = @ \/ rec.reported]
    /\ RecurseUnchanged

ReadDone ==
    /\ rec.pc = "read" /\ rec.idx > Len(rec.current)
    /\ rec' = [rec EXCEPT !.pc = "wait"]
    /\ RecurseUnchanged

\* the references of a path not seen before, each once, in order
RECURSIVE Unseen(_, _)
Unseen(refs, seen) ==
    IF refs = <<>> THEN <<>>
    ELSE IF Head(refs) \in seen THEN Unseen(Tail(refs), seen)
    ELSE <<Head(refs)>> \o Unseen(Tail(refs), seen \cup {Head(refs)})

\* a worker that queues every reference, seen before or not
WorkerRunQueuesAll(p) ==
    /\ p \in DOMAIN rec.workers /\ rec.workers[p].pc = "run"
    /\ IF p \in rec.g.bad
       THEN rec' = [rec EXCEPT !.workers[p] = [pc |-> "send", val |-> "err"]]
       ELSE LET new == IF rec.g.recurse THEN rec.g.refs[p] ELSE <<>>
            IN rec' = [rec EXCEPT !.workers[p] = [pc |-> "send", val |-> "nil"],
                                  !.nextPaths = @ \o new,
                                  !.seenPaths = @ \cup Range(new),
                                  !.queued = @ \o new]
    /\ RecurseUnchanged

\* the body of a worker: a path that cannot be opened, read, parsed or
\* handled yields an error to send; otherwise the references not seen before
\* are queued for the next round and nil is sent
WorkerRun(p) ==
    /\ p \in DOMAIN rec.workers /\ rec.workers[p].pc = "run"
    /\ IF p \in rec.g.bad
       THEN rec' = [rec EXCEPT !.workers[p] = [pc |-> "send", val |-> "err"]]
       ELSE LET new == IF rec.g.recurse
                       THEN Unseen(rec.g.refs[p], rec.seenPaths) ELSE <<>>
            IN rec' = [rec EXCEPT !.workers[p] = [pc |-> "send", val |-> "nil"],
                                  !.nextPaths = @ \o new,
                                  !.seenPaths = @ \cup Range(new),
                                  !.queued = @ \o new]
    /\ RecurseUnchanged

\* the unbuffered channel: a send meets the receive of the round's collector
Deliver(p) ==
    /\ p \in DOMAIN rec.workers /\ rec.workers[p].pc = "send"
    /\ rec.collectors[rec.round] = "recv"
    /\ rec' = [rec EXCEPT !.workers[p].pc = "exit",
                          !.collectors[rec.round] =
                              IF rec.workers[p].val = "err" THEN "gotErr" ELSE "recv",
                          !.reported = @ \/ rec.workers[p].val = "err"]
    /\ RecurseUnchanged

\* the deferred calls of a worker: sem.Release and wg.Done
WorkerExit(p) ==
    /\ p \in DOMAIN rec.workers /\ rec.workers[p].pc = "exit"
    /\ rec' = [rec EXCEPT !.sem = @ - 1,
                          !.workers = [q \in DOMAIN rec.workers \ {p} |->
                                          rec.workers[q]]]
    /\ RecurseUnchanged

\* the collector of round r: sets the flag, then cancels in strict mode
CollectorFlag(r) ==
    /\ r \in DOMAIN rec.collectors /\ rec.collectors[r] = "gotErr"
    /\ rec' = [rec EXCEPT !.hadErrors = TRUE, !.collectors[r] = "flagged"]
    /\ RecurseUnchanged

CollectorCancel(r) ==
    /\ r \in DOMAIN rec.collectors /\ rec.collectors[r] = "flagged"
    /\ rec' = [rec EXCEPT !.collectors[r] = "recv",
                          !.cancelled = IF rec.strict THEN @ \cup {r} ELSE @]
    /\ RecurseUnchanged

CollectorExit(r) ==
    /\ r \in DOMAIN rec.collectors /\ rec.collectors[r] = "recv"
    /\ r \in rec.closed
    /\ rec' = [rec EXCEPT !.collectors[r] = "exit"]
    /\ RecurseUnchanged

\* wg.Wait returns when every worker has finished; the channel is closed and
\* an error of readPaths leaves the loop
WaitClose ==
    /\ rec.pc = "wait" /\ DOMAIN rec.workers = {}
    /\ rec' = [rec EXCEPT !.closed = @ \cup {rec.round},
                          !.pc = IF rec.readErr THEN "ret" ELSE "top"]
    /\ RecurseUnchanged

\* the flag is read without waiting for any collector
RecurseReturn ==
    /\ rec.pc = "ret"
    /\ rec' = [rec EXCEPT !.pc = "done",
                          !.ret = IF rec.hadErrors THEN "err" ELSE "nil"]
    /\ RecurseUnchanged

Rounds == 1..4
MainStep ==
    NextRound \/ LoopEnd \/ Acquire \/ ReadDone \/ WaitClose \/ RecurseReturn
WorkerStep(p) == WorkerRun(p) \/ Deliver(p) \/ WorkerExit(p)
CollectorStep(r) == CollectorFlag(r) \/ CollectorCancel(r) \/ CollectorExit(r)

NextRecurse ==
    \/ MainStep
    \/ \E p \in {PathP, PathQ, PathR} : WorkerStep(p)
    \/ \E r \in Rounds : CollectorStep(r)

SpecRecurse == InitRecurse /\ [][NextRecurse]_vars

\* every goroutine that can run is run
SpecRecurseFair ==
    /\ SpecRecurse
    /\ WF_vars(MainStep)
    /\ \A p \in {PathP, PathQ, PathR} : WF_vars(WorkerStep(p))
    /\ \A r \in Rounds : WF_vars(CollectorStep(r))

\* ------------------------------------------- claims on the recursive traversal
Started == DOMAIN rec.workers
NoPathQueuedTwice ==
    \A i, j \in DOMAIN rec.queued : rec.queued[i] = rec.queued[j] => i = j
Sending(p) == p \in DOMAIN rec.workers /\ rec.workers[p].pc = "send"

C23_WitnessLaterRound ==
    rec.round = 2 /\ Cardinality(Started) = NumCPU

\* C24: in strict mode no worker is started once a worker has reported an
\* error, in the round of the error or in a later one.
C24_StrictStops ==
    (rec.pc # "off" /\ rec.strict) => ~rec.lateStart

\* C25: when a worker has sent an error, the function returns an error.
C25_ErrorReturned ==
    (rec.pc = "done" /\ rec.reported) => rec.ret = "err"

\* C26: for every store, cycles and self references included, the traversal
\* ends: no path is queued as a reference twice, every send of a worker is
\* received, and the function returns.
C26_Terminates ==
    /\ []NoPathQueuedTwice
    /\ \A p \in {PathP, PathQ, PathR} : Sending(p) ~> ~Sending(p)
    /\ <>(rec.pc = "done")

C26_Witness ==
    /\ rec.pc = "done" /\ rec.round = 2
    /\ rec.g.refs[PathP] = <<PathP, PathQ>>
    /\ rec.queued = <<PathP, PathQ>>

\* --------------------------------- the pipeline of Sign in sign.go (SpecPipe)
\* Sign hands file names to the goroutine fileSigner over the unbuffered
\* channel filenameCh and learns of its errors over the unbuffered channel
\* errorCh. A file is told by what fileSigner does with it: "good" (signed or
\* up to date), "unreadable" (warned about and skipped) or "fail" (an error
\* is sent and fileSigner returns).
MaxFiles == 3
Outcomes == {"good", "unreadable", "fail"}
FileLists == UNION {[1..n -> Outcomes] : n \in 0..MaxFiles}

NewPipe(files) ==
    [pc |-> "select", files |-> files, i |-> 1, err |-> "nil", ret |-> "none",
     signer |-> "recv", cur |-> "none", namesClosed |-> FALSE, sent |-> FALSE]

InitPipe ==
    /\ \E files \in FileLists : pipe = NewPipe(files)
    /\ privateKeys = <<>> /\ signingMap = <<>>
    /\ ninfo = ZeroNarInfo /\ hist = [prev |-> NoOp, last |-> NoOp]
    /\ text = <<>> /\ dec = NotDecoded /\ out = NotEncoded
    /\ store = {} /\ signers = NotBuilt /\ req = NoRequest /\ resp = NoResponses
    /\ srv = NoServer /\ run = NoRun /\ kf = NoKeyFile /\ rec = NoRecurse

PipeUnchanged ==
    UNCHANGED <<privateKeys, signingMap, ninfo, hist, text, dec, out,
                store, signers, req, resp, srv, run, kf, rec>>

\* the select before a name is handed over: a send of fileSigner that is
\* waiting is received and ends the loop (a closed channel yields nil)
SelectError ==
    /\ pipe.pc = "select" /\ pipe.i <= Len(pipe.files)
    /\ pipe.signer \in {"sendErr", "done"}
    /\ pipe' = [pipe EXCEPT !.pc = "close", !.signer = "done",
                            !.err = IF pipe.signer = "sendErr" THEN "err" ELSE "nil"]
    /\ PipeUnchanged

SelectDefault ==
    /\ pipe.pc = "select" /\ pipe.i <= Len(pipe.files)
    /\ pipe.signer \notin {"sendErr", "done"}
    /\ pipe' = [pipe EXCEPT !.pc = "send"]
    /\ PipeUnchanged

\* filenameCh <- filename: waits until fileSigner receives
SendName ==
    /\ pipe.pc = "send" /\ pipe.signer = "recv"
    /\ pipe' = [pipe EXCEPT !.pc = "select", !.i = @ + 1,
                            !.signer = "work", !.cur = pipe.files[pipe.i]]
    /\ PipeUnchanged

LoopDone ==
    /\ pipe.pc = "select" /\ pipe.i > Len(pipe.files)
    /\ pipe' = [pipe EXCEPT !.pc = "close"]
    /\ PipeUnchanged

CloseNames ==
    /\ pipe.pc = "close"
    /\ pipe' = [pipe EXCEPT !.pc = "wait", !.namesClosed = TRUE]
    /\ PipeUnchanged

\* <-errorCh; return err: what is received is dropped
WaitError ==
    /\ pipe.pc = "wait" /\ pipe.signer \in {"sendErr", "done"}
    /\ pipe' = [pipe EXCEPT !.pc = "returned", !.signer = "done",
                            !.ret = pipe.err]
    /\ PipeUnchanged

\* fileSigner with the name it received
SignerWork ==
    /\ pipe.pc # "off" /\ pipe.signer = "work"
    /\ pipe' = [pipe EXCEPT
                 !.signer = IF pipe.cur = "fail" THEN "sendErr" ELSE "recv",
                 !.sent = @ \/ pipe.cur = "fail"]
    /\ PipeUnchanged

\* the range over filenameCh ends when the channel is closed
SignerClosed ==
    /\ pipe.pc # "off" /\ pipe.signer = "recv" /\ pipe.namesClosed
    /\ pipe' = [pipe EXCEPT !.signer = "done"]
    /\ PipeUnchanged

SignStep == SelectError \/ SelectDefault \/ SendName \/ LoopDone \/ CloseNames \/ WaitError
SignerStep == SignerWork \/ SignerClosed

NextPipe == SignStep \/ SignerStep

SpecPipe == InitPipe /\ [][NextPipe]_vars

\* ----------------------------------------------- claims on the sign pipeline
\* C27: the pipeline never deadlocks: fileSigner is never waiting to send on
\* the error channel while Sign is waiting to hand over the next file name.
C27_NoDeadlock ==
    pipe.pc # "off" => ~(pipe.pc = "send" /\ pipe.signer = "sendErr")

\* C28: whenever fileSigner has sent an error, for the last file as for any
\* other, Sign returns that error.
C28_ErrorReturned ==
    (pipe.pc = "returned" /\ pipe.sent) => pipe.ret = "err"

\* ------------------------------------------ claims on backups and on re-signing
\* the item was written only after its backup, which holds the old bytes
\* through every step of the write
BackedUpFirst(it) ==
    /\ it.backedUp
    /\ \A k \in DOMAIN it.trace : Holds(it.trace[k].st, Bak(it.path), it.old)

\* C29: when the backup option of the running command is on, a manifest is
\* overwritten only after its .bak copy with the previous bytes was written,
\* and a failed backup leaves the manifest as it was.
C29_BackupBeforeOverwrite ==
    (run.pc # "off" /\ run.backup)
    => \A i \in DOMAIN run.items :
          /\ run.items[i].wrote => BackedUpFirst(run.items[i])
          /\ run.items[i].backupErr
             => (~run.items[i].wrote /\ StoreAfter(i) = run.items[i].before)

\* the unconditional signer was applied to the path of item i and its result
\* is what the file holds when item i + 1 reads it
AppliedTwice(i) ==
    /\ i + 1 \in DOMAIN run.items
    /\ run.items[i].path = run.items[i + 1].path
    /\ run.items[i].code \in {"SIGNUPDT", "NOCHANGE"}
    /\ ~run.items[i].backupErr /\ ~run.items[i].writeErr

\* C30: the unconditional signer is idempotent: applied again with the same
\* keys to the manifest it produced it adds nothing, leaves the file as it is
\* and reports NOCHANGE, whatever the keys, keys of one name included.
C30_ResignIdempotent ==
    (run.cmd = "sign" /\ signers.built /\ signers.ok /\ signingMap = <<>>)
    => \A i \in DOMAIN run.items :
          AppliedTwice(i)
          => /\ run.items[i + 1].code = "NOCHANGE"
             /\ ~run.items[i + 1].wrote
             /\ StoreAfter(i + 1) = StoreAfter(i)

====
